---------------------------- MODULE Spec2Model ----------------------------
(***************************************************************************)
(* Job tracker: the document export pipeline (PDF, DOCX, plain text), the  *)
(* generate-application and parse-job-description edge functions in their  *)
(* several versions, the Generate and Job Descriptions pages that call     *)
(* them, the debounced auto-save of the master resume, the Dashboard, the  *)
(* jobs and applications of the store and of the database tables, the      *)
(* Applications Tracker page, and login, logout and loadData.              *)
(***************************************************************************)
EXTENDS Integers, Sequences, FiniteSets, TLC

VARIABLES
    \* ---- export pipeline (lib/export) ----
    content,        \* the ExportContent handed to the exporters
    exportOut,      \* what the last exporter call produced
    \* ---- edge functions (generate-application, parse-job-description) ----
    request,        \* the HTTP request the handler is serving
    handlerPc,      \* "idle", "awaitingAI" (at the await of fetch) or "done"
    aiCall,         \* what the handler sent to the AI collaborator, if anything
    aiReply,        \* what the collaborator answered
    response,       \* the HTTP response of the handler
    validation,     \* the result of the last validateJobText call
    \* ---- the store (useResumeStore) ----
    masterResume,
    jobDescriptions,
    applications,
    hasUnsavedChanges,
    \* ---- the GenerateApplication page ----
    location,           \* the route the browser shows
    selectedJobId,
    isGenerating,
    generatedContent,
    settings,
    showSaveDialog,
    generating,         \* the generateApplication calls that have not settled
    exported,           \* the last call of an exporter made by handleExport
    \* ---- the JobDescriptions page ----
    newJob,
    skillsInput,        \* the text of a field is kept as the sequence of its pieces
    keywordsInput,
    isParsing,
    parsing,            \* the fetch of handleParseWithAI that has not settled
    toast,              \* the title of the last toast shown
    \* ---- auto-save of the master resume (DataSyncContext) ----
    saveTimeout,        \* the timer of saveTimeoutRef
    saving,             \* the update requests of saveMasterResume in flight
    persisted,          \* the row of master_resumes
    now,                \* the clock, in ticks of 500 ms
    edits,              \* history: when each updateMasterResume ran, and its result
    writes,             \* history: when each update was issued, and what it carried
    \* ---- the Dashboard page and the tables behind the store ----
    clock,              \* new Date(): the browser's local date and time
    responseStats,      \* ApplicationStats: the four rates
    weeklyData,         \* ApplicationStats: the weekly activity
    upcomingItems,      \* Dashboard: the upcoming interviews and reminders
    jobTable,           \* the rows of public.job_descriptions
    applicationTable,   \* the rows of public.applications
    \* ---- the host's time zone and lib/dateUtils ----
    hostOffset,         \* local time minus UTC, in slots
    dateText,           \* the string handed to parseDate
    parsedDate,         \* the Date parseDate returned
    \* ---- the ApplicationsTracker page ----
    selectedApplication,    \* the application the detail dialog shows
    syncing,            \* the syncApplication calls that have not settled
    requested,          \* history: how often handleUpdateApplication was called
    addedItems,         \* history: the interviews and reminders added
    deletedItems,       \* history: those deleted, alone or with their application
    \* ---- history of the GenerateApplication page ----
    generatedFor,       \* the job that generatedContent was generated for
    \* ---- the session (AuthContext, DataSyncProvider) ----
    user,               \* useAuth().user: the id of the user, NoUser when logged out
    isInitialLoadRef,
    isLoadingRef,
    isLoading,
    loads,              \* the calls of loadData that have not returned
    masterTable,        \* the rows of public.master_resumes, by user
    logins,             \* history: how many logins there have been
    loadedFor,          \* history: the user whose loadData has succeeded since login
    issued              \* history: the updates of master_resumes that were issued

exportVars == <<content, exportOut>>

endpointVars == <<request, handlerPc, aiCall, aiReply, response, validation>>

generateVars ==
    <<selectedJobId, isGenerating, generatedContent, settings, showSaveDialog,
      generating, exported>>

jobsVars == <<newJob, skillsInput, keywordsInput, isParsing, parsing>>

pageVars == <<location, jobDescriptions, applications, generateVars, jobsVars>>

saveVars == <<hasUnsavedChanges, saveTimeout, saving, persisted, now, edits, writes>>

dashboardVars == <<clock, responseStats, weeklyData, upcomingItems>>

tableVars == <<jobTable, applicationTable>>

dateVars == <<hostOffset, dateText, parsedDate>>

dialogVars == <<selectedApplication, syncing, requested, addedItems, deletedItems>>

sessionVars ==
    <<user, isInitialLoadRef, isLoadingRef, isLoading, loads, masterTable, logins,
      loadedFor, issued>>

restVars == <<dateVars, dialogVars, generatedFor, sessionVars>>

trackerVars == <<dashboardVars, tableVars, restVars>>

vars ==
    <<content, exportOut, request, handlerPc, aiCall, aiReply, response, validation,
      masterResume, jobDescriptions, applications, hasUnsavedChanges,
      location, selectedJobId, isGenerating, generatedContent, settings,
      showSaveDialog, generating, exported,
      newJob, skillsInput, keywordsInput, isParsing, parsing, toast,
      saveTimeout, saving, persisted, now, edits, writes,
      clock, responseStats, weeklyData, upcomingItems, jobTable, applicationTable,
      hostOffset, dateText, parsedDate,
      selectedApplication, syncing, requested, addedItems, deletedItems,
      generatedFor,
      user, isInitialLoadRef, isLoadingRef, isLoading, loads, masterTable, logins,
      loadedFor, issued>>

(***************************************************************************)
(* The values of a part of the system that has not acted                   *)
(***************************************************************************)
NoExport == [backend |-> "none", type |-> "none", out |-> <<>>, pages |-> 0,
             fileName |-> <<>>]

NoRequest == [endpoint |-> "none"]
NoCall == [sent |-> FALSE]
NoReply == [kind |-> "none"]
NoResponse == [status |-> 0]
NoValidation == [version |-> "none"]
NoData == [none |-> TRUE]

EndpointIdle ==
    /\ request = NoRequest
    /\ handlerPc = "idle"
    /\ aiCall = NoCall
    /\ aiReply = NoReply
    /\ response = NoResponse
    /\ validation = NoValidation

(***************************************************************************)
(* Helpers                                                                 *)
(***************************************************************************)
Range(s) == {s[i] : i \in 1..Len(s)}

RECURSIVE Flatten(_)
Flatten(ss) == IF ss = <<>> THEN <<>> ELSE Head(ss) \o Flatten(Tail(ss))

RECURSIVE SumSeq(_)
SumSeq(s) == IF s = <<>> THEN 0 ELSE Head(s) + SumSeq(Tail(s))

\* JavaScript truthiness of a string-or-absent scalar.
Absent == "<absent>"
Truthy(v) == v # "" /\ v # Absent
\* `${v}` in a template literal.
Tpl(v) == IF v = Absent THEN "undefined" ELSE v
\* v || d
OrElse(v, d) == IF Truthy(v) THEN v ELSE d

RECURSIVE FilterTruthy(_)
FilterTruthy(s) ==
    IF s = <<>> THEN <<>>
    ELSE IF Truthy(Head(s)) THEN <<Head(s)>> \o FilterTruthy(Tail(s))
    ELSE FilterTruthy(Tail(s))

\* parts.join(sep), kept as the sequence of its pieces
RECURSIVE Join(_, _)
Join(s, sep) ==
    IF s = <<>> THEN <<>>
    ELSE IF Len(s) = 1 THEN <<Head(s)>>
    ELSE <<Head(s), sep>> \o Join(Tail(s), sep)

(***************************************************************************)
(* Bounds of the model                                                     *)
(***************************************************************************)
MaxBullets == 2      \* bullets in one resume, over all its entries
MaxExperience == 1   \* experience entries in one resume
LongLines == 60      \* wrapped lines of a long bullet (splitTextToSize)

(***************************************************************************)
(* Resume data model (types/resume as used by lib/export)                  *)
(***************************************************************************)
IsEnabled(b) == b.enabled

\* bullets.filter(b => b.enabled)
EnabledBullets(bullets) == SelectSeq(bullets, IsEnabled)

ShortShapes ==
    { [enabled |-> TRUE,  nlines |-> 1],
      [enabled |-> FALSE, nlines |-> 1] }

BulletShapes == ShortShapes \cup { [enabled |-> TRUE,  nlines |-> LongLines] }

MkBullets(sec, e, shapes) ==
    [k \in 1..Len(shapes) |->
        [id      |-> sec \o ToString(e) \o "b" \o ToString(k),
         text    |-> "text-" \o sec \o ToString(e) \o "-" \o ToString(k),
         enabled |-> shapes[k].enabled,
         nlines  |-> shapes[k].nlines]]

MkEdu(e, shapes, opt) ==
    [id |-> "edu" \o ToString(e), degree |-> "BSc" \o ToString(e), field |-> IF opt THEN "CS" ELSE "",
     graduationDate |-> "2020", school |-> "MIT",
     location |-> IF opt THEN "Boston" ELSE "",
     bullets |-> MkBullets("edu", e, shapes)]

MkExp(e, shapes, opt) ==
    [id |-> "exp" \o ToString(e), title |-> "Engineer" \o ToString(e), company |-> "Initech",
     startDate |-> "2020", endDate |-> "2022",
     location |-> IF opt THEN "Austin" ELSE "",
     bullets |-> MkBullets("exp", e, shapes)]

MkLead(e, shapes, opt) ==
    [id |-> "lead" \o ToString(e), title |-> "President" \o ToString(e), organization |-> "Club",
     startDate |-> "2018", endDate |-> "2019",
     location |-> IF opt THEN "Boston" ELSE "",
     bullets |-> MkBullets("lead", e, shapes)]

MkProj(e, shapes, opt) ==
    [id |-> "proj" \o ToString(e), name |-> "Compiler" \o ToString(e),
     startDate |-> IF opt THEN "2019" ELSE "", endDate |-> IF opt THEN "2020" ELSE "",
     link |-> IF opt THEN "http://x" ELSE "",
     bullets |-> MkBullets("proj", e, shapes)]

SeqsUpTo(S, n) == UNION {[1..k -> S] : k \in 0..n}

NoMaster == [none |-> TRUE]

\* stores/resumeStore defaultResume, without the summaries the exporters ignore
defaultResume ==
    [header |-> [name |-> "", email |-> "", phone |-> "", linkedin |-> "",
                 location |-> ""],
     education |-> <<>>, experience |-> <<>>, leadership |-> <<>>, projects |-> <<>>,
     skills |-> [technical |-> <<>>, languages |-> <<>>, tools |-> <<>>,
                 certifications |-> <<>>]]


(***************************************************************************)
(* The store and the pages before anything has happened                    *)
(***************************************************************************)
\* useState of GenerateApplication: settings
InitialSettings ==
    [resumeLength |-> 1, emphasis |-> "balanced", atsLevel |-> "high",
     includeCoverLetter |-> TRUE, coverLetterTone |-> "professional",
     generateWhyQuestions |-> TRUE]

NoExportCall == [format |-> "none"]

\* A pasted text: its length after trim(), and the whitespace around it.
EmptyText == [len |-> 0, pad |-> 0]

\* useState of JobDescriptions: newJob
EmptyJob ==
    [company |-> "", role |-> "", location |-> "", salary |-> "",
     jobType |-> "full-time", industry |-> "", rawText |-> EmptyText]

NoToast == ""

\* initialState of the store
StoreInitial ==
    /\ masterResume = defaultResume
    /\ jobDescriptions = <<>>
    /\ applications = <<>>
    /\ hasUnsavedChanges = FALSE

GeneratePageInitial ==
    /\ selectedJobId = ""
    /\ isGenerating = FALSE
    /\ generatedContent = NoData
    /\ settings = InitialSettings
    /\ showSaveDialog = FALSE
    /\ generating = <<>>
    /\ exported = NoExportCall

JobsPageInitial ==
    /\ newJob = EmptyJob
    /\ skillsInput = <<>>
    /\ keywordsInput = <<>>
    /\ isParsing = FALSE
    /\ parsing = <<>>

\* No timer, no request in flight, nothing written, the clock at zero.
NoTimer == [armed |-> FALSE, due |-> 0, snapshot |-> NoMaster]

SaveIdle ==
    /\ saveTimeout = NoTimer
    /\ saving = <<>>
    /\ persisted = NoMaster
    /\ now = 0
    /\ edits = <<>>
    /\ writes = <<>>

\* The Dashboard has not been rendered.
NotRendered == [rendered |-> FALSE]

DashboardIdle ==
    /\ clock = 0
    /\ responseStats = NotRendered
    /\ weeklyData = NotRendered
    /\ upcomingItems = NotRendered

\* No row in either table.
TablesEmpty ==
    /\ jobTable = {}
    /\ applicationTable = {}

\* parseDate has not been called.
NotParsed == [parsed |-> FALSE]

DatesIdle ==
    /\ hostOffset = 0
    /\ dateText = [kind |-> "empty", day |-> 0, slot |-> 0]
    /\ parsedDate = NotParsed

\* The detail dialog is closed.
NoSelection == [selected |-> FALSE]

DialogIdle ==
    /\ selectedApplication = NoSelection
    /\ syncing = {}
    /\ requested = 0
    /\ addedItems = {}
    /\ deletedItems = {}

\* Nothing has been generated.
NotGenerated == [none |-> TRUE]

\* The one user of the other parts is logged in and loadData has succeeded.
NoUser == ""
NoTable == [none |-> TRUE]

SessionSteady ==
    /\ user = "ada"
    /\ isInitialLoadRef = FALSE
    /\ isLoadingRef = FALSE
    /\ isLoading = FALSE
    /\ loads = {}
    /\ masterTable = NoTable
    /\ logins = 1
    /\ loadedFor = "ada"
    /\ issued = {}

RestIdle == DatesIdle /\ DialogIdle /\ generatedFor = NotGenerated /\ SessionSteady

TrackerIdle == DashboardIdle /\ TablesEmpty /\ RestIdle

PagesIdle ==
    /\ location = "/"
    /\ StoreInitial
    /\ GeneratePageInitial
    /\ JobsPageInitial
    /\ toast = NoToast

(***************************************************************************)
(* exportToPDF: page geometry, spacing, and the vertical cursor            *)
(***************************************************************************)
pageHeight == 792
marginTop == 50
marginBottom == 50
afterName == 14
afterContact == 16
afterSectionHeader == 10
afterRoleLine == 10
afterOrgLine == 10
bulletLine == 11
betweenEntries == 6
betweenSections == 12
bulletIndent == 20

\* One drawing operation of the PDF document, in the order jsPDF receives them.
PdfOp(op, kind, parts, s, h, x, line) ==
    [op |-> op, kind |-> kind, parts |-> parts, page |-> s.page, y |-> s.y,
     h |-> h, x |-> x, line |-> line]

PdfStart == [y |-> marginTop, page |-> 1, ops |-> <<>>]

\* pdf.addPage(); yPosition = marginTop
PdfAddPage(s) ==
    [y |-> marginTop, page |-> s.page + 1,
     ops |-> Append(s.ops, PdfOp("addPage", "", <<>>, s, 0, 0, 0))]

\* The page-fit test of addNewPageIfNeeded.
PageOverflows(y, requiredSpace) == y + requiredSpace > pageHeight - marginBottom

addNewPageIfNeeded(s, requiredSpace) ==
    LET checked == [s EXCEPT !.ops =
                       Append(@, PdfOp("check", "", <<>>, s, requiredSpace, 0, 0))]
    IN IF PageOverflows(s.y, requiredSpace) THEN PdfAddPage(checked) ELSE checked

\* pdf.text(parts, x, yPosition)
PdfText(s, kind, parts, x) ==
    [s EXCEPT !.ops = Append(@, PdfOp("text", kind, parts, s, 0, x, 1))]

\* drawLine(yPosition)
drawLine(s) == [s EXCEPT !.ops = Append(@, PdfOp("rule", "", <<>>, s, 0, 0, 0))]

Adv(s, dy) == [s EXCEPT !.y = @ + dy]

\* Statement sequencing: the document state s is computed in full, then
\* handed to the rest of the function.
Then(s, Rest(_)) == CHOOSE r \in {Rest(x) : x \in {s}} : TRUE

\* The bullet glyph and blank that precede a bullet's text (U+2022, then a space).
BulletGlyph == "(bullet) "

\* for (i = 0; i < lines.length; i++) { pdf.text(lines[i], ...); yPosition += dy }
\* (line i is drawn at yPosition + (i - 1) * dy: the loop never moves to a new page)
PdfWrappedLines(s, kind, text, n, indent, dy) ==
    [s EXCEPT
       !.ops = @ \o [i \in 1..n |->
                       PdfOp("text", kind,
                             IF kind = "bullet" /\ i = 1 THEN <<BulletGlyph, text>>
                             ELSE <<text>>,
                             [s EXCEPT !.y = @ + (i - 1) * dy], 0,
                             IF i = 1 THEN 0 ELSE indent, i)],
       !.y = @ + n * dy]

\* A faulty variant: a bullet is drawn without the page-fit check
BulletCheck_Skipped(s) == s

\* The page-fit check that precedes a bullet: addNewPageIfNeeded(20).
BulletCheck(s) == addNewPageIfNeeded(s, 20)

\* One bullet: the check, then every wrapped line with no further check.
PdfBullet(s, b, indent) ==
    PdfWrappedLines(BulletCheck(s), "bullet", b.text, b.nlines, indent, bulletLine)

\* A faulty variant: the exporter forgets the enabled filter
RenderedBullets_Unfiltered(entry) == entry.bullets

\* The bullets an exporter lays out for one entry.
RenderedBullets(entry) == EnabledBullets(entry.bullets)

RECURSIVE PdfBullets(_, _, _)
PdfBullets(s, bullets, indent) ==
    IF bullets = <<>> THEN s
    ELSE Then(PdfBullet(s, Head(bullets), indent),
              LAMBDA x : PdfBullets(x, Tail(bullets), indent))

\* `${a}${b ? `, ${b}` : ''}`
WithOptional(a, sep, b) == IF Truthy(b) THEN <<Tpl(a), sep, Tpl(b)>> ELSE <<Tpl(a)>>

SectionHeader(s, title, gap) ==
    Adv(drawLine(Adv(PdfText(s, "section", <<title>>, 0), 2)), gap)

PdfEduEntry(s0, edu) ==
    LET s1 == addNewPageIfNeeded(s0, 50)
        s2 == PdfText(s1, "title", WithOptional(edu.degree, " in ", edu.field), 0)
        s3 == Adv(PdfText(s2, "date", <<edu.graduationDate>>, 1), afterRoleLine)
        s4 == PdfText(s3, "org", WithOptional(edu.school, ", ", edu.location), 0)
        s5 == Adv(s4, IF Len(RenderedBullets(edu)) > 0 THEN afterOrgLine
                      ELSE betweenSections)
    IN PdfBullets(s5, RenderedBullets(edu), bulletIndent)

PdfRoleEntry(s0, title, org, e) ==
    LET s1 == addNewPageIfNeeded(s0, 60)
        s2 == PdfText(s1, "title", <<title>>, 0)
        s3 == Adv(PdfText(s2, "date", <<Tpl(e.startDate), " to ", Tpl(e.endDate)>>, 1), 12)
        s4 == Adv(PdfText(s3, "org", WithOptional(org, ", ", e.location), 0), 12)
    IN Adv(PdfBullets(s4, RenderedBullets(e), 10), 6)

PdfExpEntry(s, exp) == PdfRoleEntry(s, exp.title, exp.company, exp)

PdfLeadEntry(s, lead) == PdfRoleEntry(s, lead.title, lead.organization, lead)

PdfProjEntry(s0, proj) ==
    LET s1 == addNewPageIfNeeded(s0, 40)
        s2 == PdfText(s1, "title", <<proj.name>>, 0)
        s3 == IF Truthy(proj.startDate) \/ Truthy(proj.endDate)
              THEN PdfText(s2, "date", <<OrElse(proj.startDate, ""), " to ",
                                         OrElse(proj.endDate, "")>>, 1)
              ELSE s2
        s4 == Adv(s3, afterRoleLine)
        s5 == IF Truthy(proj.link)
              THEN Adv(PdfText(s4, "link", <<proj.link>>, 0), afterOrgLine)
              ELSE s4
    IN Adv(PdfBullets(s5, RenderedBullets(proj), bulletIndent), betweenEntries)

RECURSIVE PdfEntries(_, _, _)
PdfEntries(s, sec, entries) ==
    IF entries = <<>> THEN s
    ELSE Then(CASE sec = "edu"  -> PdfEduEntry(s, Head(entries))
                [] sec = "exp"  -> PdfExpEntry(s, Head(entries))
                [] sec = "lead" -> PdfLeadEntry(s, Head(entries))
                [] sec = "proj" -> PdfProjEntry(s, Head(entries)),
              LAMBDA x : PdfEntries(x, sec, Tail(entries)))

\* [...technical, ...tools, ...certifications].filter(Boolean)
AllSkills(resume) ==
    FilterTruthy(resume.skills.technical \o resume.skills.tools
                 \o resume.skills.certifications)

\* A faulty variant: the name is drawn as it is, with no placeholder
PdfHeader_NoPlaceholder(s, resume) ==
    LET s1 == Adv(PdfText(s, "name", <<resume.header.name>>, 2), afterName)
        contactParts == FilterTruthy(<<resume.header.location, resume.header.phone,
                                       resume.header.email, resume.header.linkedin>>)
    IN Adv(PdfText(s1, "contact", Join(contactParts, " | "), 2), afterContact)

PdfHeader(s, resume) ==
    LET s1 == Adv(PdfText(s, "name", <<OrElse(resume.header.name, "Your Name")>>, 2),
                  afterName)
        contactParts == FilterTruthy(<<resume.header.location, resume.header.phone,
                                       resume.header.email, resume.header.linkedin>>)
    IN Adv(PdfText(s1, "contact", Join(contactParts, " | "), 2), afterContact)

PdfEducation(s, resume) ==
    IF Len(resume.education) > 0
    THEN Adv(PdfEntries(SectionHeader(s, "EDUCATION", afterSectionHeader),
                        "edu", resume.education), betweenEntries)
    ELSE s

PdfExperience(s, resume) ==
    IF Len(resume.experience) > 0
    THEN PdfEntries(SectionHeader(addNewPageIfNeeded(s, 60), "WORK EXPERIENCE", 12),
                    "exp", resume.experience)
    ELSE s

PdfLeadership(s, resume) ==
    IF Len(resume.leadership) > 0
    THEN PdfEntries(SectionHeader(addNewPageIfNeeded(s, 50), "LEADERSHIP EXPERIENCE", 12),
                    "lead", resume.leadership)
    ELSE s

PdfProjects(s, resume) ==
    IF Len(resume.projects) > 0
    THEN Adv(PdfEntries(SectionHeader(addNewPageIfNeeded(s, 50), "ACADEMIC PROJECTS",
                                      afterSectionHeader),
                        "proj", resume.projects), betweenEntries)
    ELSE s

\* A faulty variant: the SKILLS section is guarded by the unfiltered lists
PdfSkills_Unfiltered(s, resume) ==
    IF Len(resume.skills.technical \o resume.skills.tools
           \o resume.skills.certifications) > 0
    THEN Adv(PdfWrappedLines(SectionHeader(addNewPageIfNeeded(s, 30), "SKILLS", 12),
                             "skills", "skills", resume.skills.nlines, 0, 11), 6)
    ELSE s

PdfSkills(s, resume) ==
    IF Len(AllSkills(resume)) > 0
    THEN Adv(PdfWrappedLines(SectionHeader(addNewPageIfNeeded(s, 30), "SKILLS", 12),
                             "skills", "skills", resume.skills.nlines, 0, 11), 6)
    ELSE s

PdfLanguages(s, resume) ==
    IF Len(resume.skills.languages) > 0
    THEN Adv(PdfText(SectionHeader(addNewPageIfNeeded(s, 30), "LANGUAGES", 12),
                     "languages", Join(resume.skills.languages, ", "), 0), 16)
    ELSE s

\* A faulty variant: LANGUAGES is laid out before SKILLS
PdfStructured_LanguagesFirst(s, resume) ==
    Then(PdfHeader(s, resume),     LAMBDA s1 :
    Then(PdfEducation(s1, resume),  LAMBDA s2 :
    Then(PdfExperience(s2, resume), LAMBDA s3 :
    Then(PdfLeadership(s3, resume), LAMBDA s4 :
    Then(PdfProjects(s4, resume),   LAMBDA s5 :
    Then(PdfLanguages(s5, resume),  LAMBDA s6 : PdfSkills(s6, resume)))))))

PdfStructured(s, resume) ==
    Then(PdfHeader(s, resume),     LAMBDA s1 :
    Then(PdfEducation(s1, resume),  LAMBDA s2 :
    Then(PdfExperience(s2, resume), LAMBDA s3 :
    Then(PdfLeadership(s3, resume), LAMBDA s4 :
    Then(PdfProjects(s4, resume),   LAMBDA s5 :
    Then(PdfSkills(s5, resume),     LAMBDA s6 : PdfLanguages(s6, resume)))))))

\* for (const line of lines) { addNewPageIfNeeded(14); pdf.text(line); yPosition += dy }
RECURSIVE PdfCheckedLines(_, _, _, _, _, _)
PdfCheckedLines(s, kind, text, i, n, dy) ==
    IF i > n THEN s
    ELSE Then(Adv(PdfText(addNewPageIfNeeded(s, 14), kind, <<text>>, 0), dy),
              LAMBDA x : PdfCheckedLines(x, kind, text, i + 1, n, dy))

PdfFallback(s, c) ==
    LET s1 == Adv(PdfText(s, "fallbackTitle", <<"Resume - ", Tpl(c.roleName)>>, 0), 14)
        s2 == Adv(PdfText(s1, "fallbackCompany", c.companyName, 0), 20)
    IN PdfCheckedLines(s2, "fallback", c.resume.text, 1, c.resume.nlines, 12)

RECURSIVE PdfParagraphs(_, _)
PdfParagraphs(s, paras) ==
    IF paras = <<>> THEN s
    ELSE IF Head(paras).text = ""   \* para.trim() is empty
    THEN PdfParagraphs(s, Tail(paras))
    ELSE Then(Adv(PdfCheckedLines(s, "cover", Head(paras).text, 1, Head(paras).nlines, 13),
                  8),
              LAMBDA x : PdfParagraphs(x, Tail(paras)))

PdfCoverLetter(s, c) ==
    PdfParagraphs(Adv(PdfText(s, "coverTitle", <<"Cover Letter">>, 0), 24), c.coverLetter)

\* A character that \s matches. A string that goes into a file name is kept
\* as its pieces: words free of whitespace and single whitespace characters.
IsWhitespace(ch) == ch \in {" ", "\t", "\n"}

RECURSIVE SkipWhitespace(_)
SkipWhitespace(s) ==
    IF s # <<>> /\ IsWhitespace(Head(s)) THEN SkipWhitespace(Tail(s)) ELSE s

\* A faulty variant: str.replace(/\s/g, '_'), one underscore per character
RECURSIVE ReplaceWhitespace_EachOne(_)
ReplaceWhitespace_EachOne(s) ==
    IF s = <<>> THEN <<>>
    ELSE <<IF IsWhitespace(Head(s)) THEN "_" ELSE Head(s)>>
         \o ReplaceWhitespace_EachOne(Tail(s))

\* str.replace(/\s+/g, '_'): every match, a maximal run of whitespace, becomes
\* one underscore
RECURSIVE ReplaceWhitespace(_)
ReplaceWhitespace(s) ==
    IF s = <<>> THEN <<>>
    ELSE IF IsWhitespace(Head(s))
    THEN <<"_">> \o ReplaceWhitespace(SkipWhitespace(Tail(s)))
    ELSE <<Head(s)>> \o ReplaceWhitespace(Tail(s))

\* const fileName = type === 'resume' ? ... : type === 'coverLetter' ? ... : ...
FileName(c, type, ext) ==
    <<IF type = "resume" THEN "Resume_"
      ELSE IF type = "coverLetter" THEN "CoverLetter_"
      ELSE "Application_">>
    \o ReplaceWhitespace(c.companyName) \o <<ext>>

\* content.coverLetter is a non-empty string
HasCoverLetter(c) == c.coverLetter # <<>>

exportToPDF(c, type) ==
    Then(IF type \in {"resume", "both"}
         THEN IF c.masterResume # NoMaster
              THEN PdfStructured(PdfStart, c.masterResume)
              ELSE PdfFallback(PdfStart, c)
         ELSE PdfStart, LAMBDA s1 :
    Then(IF type = "both" /\ HasCoverLetter(c) THEN PdfAddPage(s1) ELSE s1, LAMBDA s2 :
    Then(IF type \in {"coverLetter", "both"} /\ HasCoverLetter(c)
         THEN PdfCoverLetter(s2, c)
         ELSE s2, LAMBDA s3 :
    [backend |-> "pdf", type |-> type, out |-> s3.ops, pages |-> s3.page,
     fileName |-> FileName(c, type, ".pdf")])))


(***************************************************************************)
(* exportToDocx: the paragraphs handed to the Document, in order           *)
(***************************************************************************)
Para(kind, parts) == [kind |-> kind, parts |-> parts]

RECURSIVE MapBullets(_, _)
MapBullets(bullets, prefix) ==
    IF bullets = <<>> THEN <<>>
    ELSE <<Para("bullet", prefix \o <<Head(bullets).text>>)>>
         \o MapBullets(Tail(bullets), prefix)

DocxEduEntry(edu) ==
    <<Para("title", WithOptional(edu.degree, " in ", edu.field)
                    \o <<"\t", Tpl(edu.graduationDate)>>),
      Para("org", WithOptional(edu.school, ", ", edu.location))>>
    \o MapBullets(RenderedBullets(edu), <<>>)

DocxRoleEntry(title, org, e) ==
    <<Para("title", <<Tpl(title), "\t", Tpl(e.startDate), " to ", Tpl(e.endDate)>>),
      Para("org", WithOptional(org, ", ", e.location))>>
    \o MapBullets(RenderedBullets(e), <<>>)

ProjDates(proj) ==
    IF Truthy(proj.startDate) \/ Truthy(proj.endDate)
    THEN <<"\t", OrElse(proj.startDate, ""), " to ", OrElse(proj.endDate, "")>>
    ELSE <<>>

DocxProjEntry(proj) ==
    <<Para("title", <<Tpl(proj.name)>> \o ProjDates(proj))>>
    \o (IF Truthy(proj.link) THEN <<Para("link", <<proj.link>>)>> ELSE <<>>)
    \o MapBullets(RenderedBullets(proj), <<>>)

RECURSIVE DocxEntries(_, _)
DocxEntries(sec, entries) ==
    IF entries = <<>> THEN <<>>
    ELSE (CASE sec = "edu"  -> DocxEduEntry(Head(entries))
            [] sec = "exp"  -> DocxRoleEntry(Head(entries).title, Head(entries).company,
                                             Head(entries))
            [] sec = "lead" -> DocxRoleEntry(Head(entries).title,
                                             Head(entries).organization, Head(entries))
            [] sec = "proj" -> DocxProjEntry(Head(entries)))
         \o DocxEntries(sec, Tail(entries))

ContactParts(resume) ==
    FilterTruthy(<<resume.header.location, resume.header.phone,
                   resume.header.email, resume.header.linkedin>>)

DocxSection(title, nonEmpty, body) ==
    IF nonEmpty THEN <<Para("section", <<title>>)>> \o body ELSE <<>>

DocxStructured(resume) ==
    <<Para("name", <<OrElse(resume.header.name, "Your Name")>>),
      Para("contact", Join(ContactParts(resume), " | "))>>
    \o DocxSection("EDUCATION", Len(resume.education) > 0,
                   DocxEntries("edu", resume.education))
    \o DocxSection("WORK EXPERIENCE", Len(resume.experience) > 0,
                   DocxEntries("exp", resume.experience))
    \o DocxSection("LEADERSHIP EXPERIENCE", Len(resume.leadership) > 0,
                   DocxEntries("lead", resume.leadership))
    \o DocxSection("ACADEMIC PROJECTS", Len(resume.projects) > 0,
                   DocxEntries("proj", resume.projects))
    \o DocxSection("SKILLS", Len(AllSkills(resume)) > 0,
                   <<Para("skills", Join(AllSkills(resume), ", "))>>)
    \o DocxSection("LANGUAGES", Len(resume.skills.languages) > 0,
                   <<Para("languages", Join(resume.skills.languages, ", "))>>)

\* one paragraph for every line of the text that is not blank
RECURSIVE NonBlankParas(_, _)
NonBlankParas(kind, paras) ==
    IF paras = <<>> THEN <<>>
    ELSE (IF Head(paras).text = "" THEN <<>> ELSE <<Para(kind, <<Head(paras).text>>)>>)
         \o NonBlankParas(kind, Tail(paras))

DocxFallback(c) ==
    <<Para("fallbackTitle", <<"Resume - ", Tpl(c.roleName)>>)>>
    \o NonBlankParas("fallback", <<c.resume>>)

exportToDocx(c, type) ==
    LET body == IF type \in {"resume", "both"} /\ c.masterResume # NoMaster
                THEN DocxStructured(c.masterResume)
                ELSE IF type \in {"resume", "both"} THEN DocxFallback(c)
                ELSE <<>>
        break == IF type = "both" /\ HasCoverLetter(c)
                 THEN <<Para("pageBreak", <<>>)>> ELSE <<>>
        cover == IF type \in {"coverLetter", "both"} /\ HasCoverLetter(c)
                 THEN <<Para("coverTitle", <<"Cover Letter">>)>>
                      \o NonBlankParas("cover", c.coverLetter)
                 ELSE <<>>
    IN [backend |-> "docx", type |-> type, out |-> body \o break \o cover, pages |-> 0,
        fileName |-> FileName(c, type, ".docx")]

(***************************************************************************)
(* exportToText: the lines of the single string, in order                  *)
(***************************************************************************)
TextEduEntry(edu) ==
    <<Para("title", WithOptional(edu.degree, " in ", edu.field)
                    \o <<"\t", Tpl(edu.graduationDate)>>),
      Para("org", WithOptional(edu.school, ", ", edu.location))>>
    \o MapBullets(RenderedBullets(edu), <<BulletGlyph>>)
    \o <<Para("blank", <<>>)>>

TextRoleEntry(title, org, e) ==
    <<Para("title", <<Tpl(title), "\t", Tpl(e.startDate), " to ", Tpl(e.endDate)>>),
      Para("org", WithOptional(org, ", ", e.location))>>
    \o MapBullets(RenderedBullets(e), <<BulletGlyph>>)
    \o <<Para("blank", <<>>)>>

TextProjEntry(proj) ==
    <<Para("title", <<Tpl(proj.name)>> \o ProjDates(proj))>>
    \o (IF Truthy(proj.link) THEN <<Para("link", <<proj.link>>)>> ELSE <<>>)
    \o MapBullets(RenderedBullets(proj), <<BulletGlyph>>)
    \o <<Para("blank", <<>>)>>

RECURSIVE TextEntries(_, _)
TextEntries(sec, entries) ==
    IF entries = <<>> THEN <<>>
    ELSE (CASE sec = "edu"  -> TextEduEntry(Head(entries))
            [] sec = "exp"  -> TextRoleEntry(Head(entries).title, Head(entries).company,
                                             Head(entries))
            [] sec = "lead" -> TextRoleEntry(Head(entries).title,
                                             Head(entries).organization, Head(entries))
            [] sec = "proj" -> TextProjEntry(Head(entries)))
         \o TextEntries(sec, Tail(entries))

TextSection(title, nonEmpty, body) ==
    IF nonEmpty
    THEN <<Para("section", <<title>>), Para("underline", <<"-x50">>)>> \o body
    ELSE <<>>

TextStructured(resume) ==
    <<Para("name", <<Tpl(resume.header.name)>>),
      Para("contact", Join(ContactParts(resume), " | ")),
      Para("blank", <<>>)>>
    \o TextSection("EDUCATION", Len(resume.education) > 0,
                   TextEntries("edu", resume.education))
    \o TextSection("WORK EXPERIENCE", Len(resume.experience) > 0,
                   TextEntries("exp", resume.experience))
    \o TextSection("LEADERSHIP EXPERIENCE", Len(resume.leadership) > 0,
                   TextEntries("lead", resume.leadership))
    \o TextSection("ACADEMIC PROJECTS", Len(resume.projects) > 0,
                   TextEntries("proj", resume.projects))
    \o TextSection("SKILLS", Len(AllSkills(resume)) > 0,
                   <<Para("skills", Join(AllSkills(resume), ", ")), Para("blank", <<>>)>>)
    \o TextSection("LANGUAGES", Len(resume.skills.languages) > 0,
                   <<Para("languages", Join(resume.skills.languages, ", "))>>)

RECURSIVE RawLines(_, _)
RawLines(kind, paras) ==
    IF paras = <<>> THEN <<>>
    ELSE <<Para(kind, <<Head(paras).text>>)>> \o RawLines(kind, Tail(paras))

TextFallback(c) ==
    <<Para("fallbackTitle", <<"RESUME - ", Tpl(c.roleName)>>),
      Para("fallbackCompany", c.companyName),
      Para("rule", <<"=x50">>), Para("blank", <<>>),
      Para("fallback", <<c.resume.text>>)>>

exportToText(c, type) ==
    LET body == IF type \in {"resume", "both"} /\ c.masterResume # NoMaster
                THEN TextStructured(c.masterResume)
                ELSE IF type \in {"resume", "both"} THEN TextFallback(c)
                ELSE <<>>
        break == IF type = "both" /\ HasCoverLetter(c)
                 THEN <<Para("blank", <<>>), Para("rule", <<"=x50">>), Para("blank", <<>>)>>
                 ELSE <<>>
        cover == IF type \in {"coverLetter", "both"} /\ HasCoverLetter(c)
                 THEN <<Para("coverTitle", <<"COVER LETTER">>), Para("rule", <<"=x50">>),
                        Para("blank", <<>>)>>
                      \o RawLines("cover", c.coverLetter)
                 ELSE <<>>
    IN [backend |-> "text", type |-> type, out |-> body \o break \o cover, pages |-> 0,
        fileName |-> FileName(c, type, ".txt")]

(***************************************************************************)
(* The export inputs and the three export operations                       *)
(***************************************************************************)
ExportTypes == {"resume", "coverLetter", "both"}

\* A resume with the given bullet shapes per entry; `full` fills in the header,
\* the optional scalars, the skills and the languages.
MkResume(sEdu, sExp, sLead, sProj, full) ==
    [header |-> [name |-> IF full THEN "Ada" ELSE "", email |-> IF full THEN "a@b.c" ELSE "",
                 phone |-> "", linkedin |-> "",
                 location |-> IF full THEN "Boston" ELSE ""],
     education  |-> [e \in 1..Len(sEdu)  |-> MkEdu(e, sEdu[e], full)],
     experience |-> [e \in 1..Len(sExp)  |-> MkExp(e, sExp[e], full)],
     leadership |-> [e \in 1..Len(sLead) |-> MkLead(e, sLead[e], full)],
     projects   |-> [e \in 1..Len(sProj) |-> MkProj(e, sProj[e], full)],
     skills |-> [technical |-> IF full THEN <<"TLA+", "">> ELSE <<>>,
                 tools |-> IF full THEN <<"git">> ELSE <<>>,
                 certifications |-> <<>>,
                 languages |-> IF full THEN <<"English", "French">> ELSE <<>>,
                 nlines |-> 1]]

\* The skills of a resume with no entries.
SkillsOnly(technical, languages) ==
    [defaultResume EXCEPT
       !.skills = [technical |-> technical, tools |-> <<>>, certifications |-> <<>>,
                   languages |-> languages, nlines |-> 1]]

\* A stored resume whose header is the table's default {} and whose entries
\* lack the scalars the exporters treat as optional: every one of them reads
\* as undefined.
AbsentScalars ==
    [header |-> [name |-> Absent, email |-> Absent, phone |-> Absent,
                 linkedin |-> Absent, location |-> Absent],
     education  |-> <<[MkEdu(1, <<>>, FALSE) EXCEPT !.field = Absent,
                         !.location = Absent, !.graduationDate = Absent]>>,
     experience |-> <<[MkExp(1, <<>>, FALSE) EXCEPT !.location = Absent,
                         !.startDate = Absent, !.endDate = Absent]>>,
     leadership |-> <<[MkLead(1, <<>>, FALSE) EXCEPT !.location = Absent,
                         !.startDate = Absent, !.endDate = Absent]>>,
     projects   |-> <<[MkProj(1, <<>>, FALSE) EXCEPT !.link = Absent,
                         !.startDate = Absent, !.endDate = Absent]>>,
     skills |-> [technical |-> <<>>, tools |-> <<>>, certifications |-> <<>>,
                 languages |-> <<>>, nlines |-> 1]]

\* Resumes at the edges of the data model: a skill list that holds only a blank
\* string, one list of skills alone, languages alone, absent scalars.
EdgeResumes ==
    { SkillsOnly(<<"">>, <<>>), SkillsOnly(<<"Go">>, <<>>),
      SkillsOnly(<<>>, <<"English">>), AbsentScalars }

BulletCount(entries) == SumSeq([e \in 1..Len(entries) |-> Len(entries[e])])

\* Every way to give at most n entries bullets of the given shapes, at most
\* `room` bullets in all.
EntryShapes(shapes, n, room) ==
    {ss \in SeqsUpTo(SeqsUpTo(shapes, room), n) : BulletCount(ss) <= room}

CoverLetters == { <<>>, <<[text |-> "Dear team", nlines |-> 2], [text |-> "", nlines |-> 1],
                          [text |-> "Regards", nlines |-> 1]>> }

MkContent(m, cl) ==
    [resume |-> [text |-> "generated resume", nlines |-> 3], coverLetter |-> cl,
     companyName |-> <<"Acme", " ", "Corp">>, roleName |-> "Dev", masterResume |-> m]

\* Company names: one blank, two blanks in a row, a tab, a blank at the end.
CompanyNames ==
    { <<"Acme", " ", "Corp">>, <<"Acme", " ", " ", "Corp">>, <<"Acme", "\t", "Corp">>,
      <<"Acme", " ", "&", " ", "Co", " ">> }

InitExport ==
    /\ TrackerIdle
    /\ EndpointIdle
    /\ PagesIdle
    /\ SaveIdle
    /\ exportOut = NoExport
    /\ \/ \E cl \in CoverLetters, name \in CompanyNames :
             content = [MkContent(NoMaster, cl) EXCEPT !.companyName = name]
       \/ \E m \in EdgeResumes, cl \in CoverLetters : content = MkContent(m, cl)
       \/ \E full \in BOOLEAN, cl \in CoverLetters :
          \E sExp \in EntryShapes(BulletShapes, MaxExperience, MaxBullets) :
          \E sEdu \in EntryShapes(ShortShapes, 1, MaxBullets - BulletCount(sExp)) :
          \E sLead \in EntryShapes(ShortShapes, 1,
                                    MaxBullets - BulletCount(sExp) - BulletCount(sEdu)) :
          \E sProj \in EntryShapes(ShortShapes, 1,
                                    MaxBullets - BulletCount(sExp) - BulletCount(sEdu)
                                    - BulletCount(sLead)) :
             content = MkContent(MkResume(sEdu, sExp, sLead, sProj, full), cl)

ExportPDF(type) ==
    /\ exportOut = NoExport
    /\ exportOut' = exportToPDF(content, type)
    /\ UNCHANGED <<content, endpointVars, masterResume, toast, pageVars, saveVars>>
    /\ UNCHANGED trackerVars

ExportDocx(type) ==
    /\ exportOut = NoExport
    /\ exportOut' = exportToDocx(content, type)
    /\ UNCHANGED <<content, endpointVars, masterResume, toast, pageVars, saveVars>>
    /\ UNCHANGED trackerVars

ExportText(type) ==
    /\ exportOut = NoExport
    /\ exportOut' = exportToText(content, type)
    /\ UNCHANGED <<content, endpointVars, masterResume, toast, pageVars, saveVars>>
    /\ UNCHANGED trackerVars

NextExport ==
    \/ \E type \in ExportTypes : ExportPDF(type)
    \/ \E type \in ExportTypes : ExportDocx(type)
    \/ \E type \in ExportTypes : ExportText(type)

SpecExport == InitExport /\ [][NextExport]_vars


(***************************************************************************)
(* Properties of the export pipeline                                       *)
(***************************************************************************)
Structured == exportOut.backend # "none" /\ exportOut.type \in {"resume", "both"}
              /\ content.masterResume # NoMaster

\* An output item that starts an entry (its title line) or a bullet.
IsTitle(r) == r.kind = "title"
IsBulletStart(r) == r.kind = "bullet" /\ (exportOut.backend = "pdf" => r.line = 1)
IsTitleOrBullet(r) == IsTitle(r) \/ IsBulletStart(r)

ItemKey(r) == IF r.kind = "title" THEN <<"title", r.parts[1]>>
              ELSE <<"bullet", r.parts[Len(r.parts)]>>

\* The titles and bullets of an output, in output order.
Skeleton(out) == LET items == SelectSeq(out, IsTitleOrBullet)
                 IN [i \in 1..Len(items) |-> ItemKey(items[i])]

EntryKeys(titleKey, entry) ==
    <<<<"title", titleKey>>>>
    \o [k \in 1..Len(EnabledBullets(entry.bullets)) |->
           <<"bullet", EnabledBullets(entry.bullets)[k].text>>]

\* What the data model asks for: per entry its title, then its enabled bullets.
ExpectedSkeleton(resume) ==
    Flatten([e \in 1..Len(resume.education) |->
                EntryKeys(resume.education[e].degree, resume.education[e])])
    \o Flatten([e \in 1..Len(resume.experience) |->
                EntryKeys(resume.experience[e].title, resume.experience[e])])
    \o Flatten([e \in 1..Len(resume.leadership) |->
                EntryKeys(resume.leadership[e].title, resume.leadership[e])])
    \o Flatten([e \in 1..Len(resume.projects) |->
                EntryKeys(resume.projects[e].name, resume.projects[e])])

AllEntries(resume) ==
    Range(resume.education) \cup Range(resume.experience)
    \cup Range(resume.leadership) \cup Range(resume.projects)

DisabledTexts(resume) ==
    {b.text : b \in {x \in UNION {Range(e.bullets) : e \in AllEntries(resume)} :
                        ~x.enabled}}

\* C1: on the structured path of each of the three backends the text of a
\* disabled bullet is in no output item, and the bullets emitted are exactly the
\* enabled bullets of each education, experience, leadership and project
\* entry, under their entry and in model order.
C1_OnlyEnabledBulletsExported ==
    Structured =>
        /\ Skeleton(exportOut.out) = ExpectedSkeleton(content.masterResume)
        /\ \A r \in Range(exportOut.out) :
              Range(r.parts) \cap DisabledTexts(content.masterResume) = {}

\* A structured export of each backend of a resume in which one entry holds a
\* disabled bullet before an enabled one.
C1_Witness ==
    /\ Structured
    /\ exportOut.backend = "text"
    /\ \E e \in AllEntries(content.masterResume) :
          /\ Len(e.bullets) = 2
          /\ ~e.bullets[1].enabled
          /\ e.bullets[2].enabled
    /\ \E r \in Range(exportOut.out) : r.kind = "bullet"

\* The page-fit check that was made right before output item i, if any: the
\* check directly precedes i, or precedes the addPage that precedes i.
CheckBefore(out, i) ==
    IF i > 1 /\ out[i-1].op = "check" THEN i - 1
    ELSE IF i > 2 /\ out[i-1].op = "addPage" /\ out[i-2].op = "check" THEN i - 2
    ELSE 0

\* The check before item i was made and was obeyed: the item is drawn where the
\* cursor stood if it fits, and at the top margin of a new page if it does not.
FitsAfterCheck(out, i) ==
    LET c == CheckBefore(out, i)
    IN /\ c > 0
       /\ IF out[c].y + out[c].h > pageHeight - marginBottom
          THEN out[i].page = out[c].page + 1 /\ out[i].y = marginTop
          ELSE out[i].page = out[c].page /\ out[i].y = out[c].y /\ c = i - 1

PdfStructured_ == Structured /\ exportOut.backend = "pdf"

C28_TextWithinMargins ==
    exportOut.backend = "pdf" =>
        \A i \in 1..Len(exportOut.out) :
           exportOut.out[i].op = "text" =>
              /\ exportOut.out[i].y >= marginTop
              /\ exportOut.out[i].y <= pageHeight - marginBottom

SectionTitles ==
    <<"EDUCATION", "WORK EXPERIENCE", "LEADERSHIP EXPERIENCE", "ACADEMIC PROJECTS",
      "SKILLS", "LANGUAGES">>

IsSection(r) == r.kind = "section"

\* The section headers of an output, in output order.
SectionsIn(out) ==
    LET hs == SelectSeq(out, IsSection) IN [i \in 1..Len(hs) |-> hs[i].parts[1]]

\* The array each section is built from; for SKILLS it is allSkills, the
\* technical, tools and certifications lists joined and filtered.
SourceArray(resume, title) ==
    CASE title = "EDUCATION"             -> resume.education
      [] title = "WORK EXPERIENCE"       -> resume.experience
      [] title = "LEADERSHIP EXPERIENCE" -> resume.leadership
      [] title = "ACADEMIC PROJECTS"     -> resume.projects
      [] title = "SKILLS"                -> AllSkills(resume)
      [] title = "LANGUAGES"             -> resume.skills.languages

SectionRank(title) == CHOOSE k \in 1..Len(SectionTitles) : SectionTitles[k] = title

CoverKinds == {"coverTitle", "cover"}

\* The kinds of the items that carry resume content, structured or fallback.
ResumeKinds ==
    {"name", "contact", "section", "title", "date", "org", "link", "bullet",
     "skills", "languages", "fallbackTitle", "fallbackCompany", "fallback"}

\* C12: on the structured path of every backend the header (name line, then
\* contact line) is emitted first and always, the sections emitted appear in
\* the order EDUCATION, WORK EXPERIENCE, LEADERSHIP EXPERIENCE, ACADEMIC
\* PROJECTS, SKILLS, LANGUAGES, and with both requested every item of resume
\* content precedes every item of cover-letter content.
C12_HeaderFirstSectionsInOrder ==
    /\ Structured =>
          /\ Len(exportOut.out) >= 2
          /\ exportOut.out[1].kind = "name"
          /\ exportOut.out[2].kind = "contact"
          /\ \A i \in 3..Len(exportOut.out) :
                exportOut.out[i].kind \notin {"name", "contact"}
          /\ \A i, j \in 1..Len(SectionsIn(exportOut.out)) :
                i < j => SectionRank(SectionsIn(exportOut.out)[i])
                           < SectionRank(SectionsIn(exportOut.out)[j])
    /\ (exportOut.backend # "none" /\ exportOut.type = "both") =>
          \A i, j \in 1..Len(exportOut.out) :
             (exportOut.out[i].kind \in ResumeKinds /\ exportOut.out[j].kind \in CoverKinds)
                => i < j

\* A structured PDF of resume and cover letter together, with all six sections.
C12_Witness ==
    /\ Structured
    /\ exportOut.backend = "pdf"
    /\ exportOut.type = "both"
    /\ SectionsIn(exportOut.out) = SectionTitles
    /\ \E j \in 1..Len(exportOut.out) : exportOut.out[j].kind = "cover"

\* C13: whatever optional array of the resume is empty and whatever optional
\* scalar (header field, entry location, field or dates, project link or
\* dates) is absent, no backend's output contains the text "undefined", and no
\* drawing call is handed an absent value in place of its text: the absent
\* scalar is left out of its line.
C13_NoUndefinedInOutput ==
    exportOut.backend # "none" =>
        \A r \in Range(exportOut.out) :
           Range(r.parts) \cap {"undefined", Absent} = {}

\* header.name empty and every array empty
IsEmptyResume(resume) ==
    /\ resume # NoMaster
    /\ resume.header.name = ""
    /\ \A t \in Range(SectionTitles) : Len(SourceArray(resume, t)) = 0
    /\ Len(resume.skills.technical \o resume.skills.tools
           \o resume.skills.certifications) = 0

EmptyResumePdf ==
    /\ exportOut.backend = "pdf"
    /\ exportOut.type = "resume"
    /\ IsEmptyResume(content.masterResume)

\* C14: for an empty resume exportToPDF with target resume produces exactly
\* one page that carries only the placeholder name line and the empty contact
\* line: no section header is drawn and no page is added.
C14_EmptyResumeOnePage ==
    EmptyResumePdf =>
        /\ exportOut.pages = 1
        /\ Len(exportOut.out) = 2
        /\ exportOut.out[1].op = "text" /\ exportOut.out[1].kind = "name"
        /\ exportOut.out[1].parts = <<"Your Name">>
        /\ exportOut.out[2].op = "text" /\ exportOut.out[2].kind = "contact"
        /\ exportOut.out[2].parts = <<>>
        /\ \A i \in 1..2 : exportOut.out[i].page = 1

\* The PDF of the empty resume has been produced.
C14_Witness == EmptyResumePdf /\ content.coverLetter # <<>>

Exported == exportOut.backend # "none"

FilePrefix ==
    CASE exportOut.type = "resume"      -> "Resume_"
      [] exportOut.type = "coverLetter" -> "CoverLetter_"
      [] exportOut.type = "both"        -> "Application_"

FileExtension ==
    CASE exportOut.backend = "pdf"  -> ".pdf"
      [] exportOut.backend = "docx" -> ".docx"
      [] exportOut.backend = "text" -> ".txt"

IsPiece(p) == p # ""

\* The name with each of its spaces replaced by an underscore.
SpacesAsUnderscores(name) == [i \in 1..Len(name) |-> IF name[i] = " " THEN "_" ELSE name[i]]

\* The name with every maximal run of whitespace characters replaced by one
\* underscore: the first character of a run becomes the underscore, the
\* further ones are dropped.
RunsAsUnderscores(name) ==
    SelectSeq([i \in 1..Len(name) |->
                  IF ~IsWhitespace(name[i]) THEN name[i]
                  ELSE IF i > 1 /\ IsWhitespace(name[i-1]) THEN "" ELSE "_"],
              IsPiece)

\* C15 as stated: the file name is Resume_, CoverLetter_ or Application_, the
\* company name with each of its spaces replaced by an underscore, and the
\* backend's extension, also for names with consecutive spaces or other
\* whitespace.
C15_FileNameSpacesAsUnderscores ==
    Exported =>
        exportOut.fileName
          = <<FilePrefix>> \o SpacesAsUnderscores(content.companyName) \o <<FileExtension>>

\* C15 as amended: the file name is the prefix of the target, the company
\* name with every maximal run of whitespace characters replaced by a single
\* underscore, and the backend's extension; it depends on nothing else, and
\* "Acme Corp" with target both on the PDF backend gives
\* Application_Acme_Corp.pdf.
C15_FileNameRunsAsUnderscores ==
    Exported =>
        /\ exportOut.fileName
             = <<FilePrefix>> \o RunsAsUnderscores(content.companyName) \o <<FileExtension>>
        /\ (/\ content.companyName = <<"Acme", " ", "Corp">>
            /\ exportOut.type = "both"
            /\ exportOut.backend = "pdf")
              => exportOut.fileName = <<"Application_", "Acme", "_", "Corp", ".pdf">>

\* An export for a company whose name holds two blanks in a row.
C15_Witness ==
    /\ Exported
    /\ content.companyName = <<"Acme", " ", " ", "Corp">>
    /\ exportOut.fileName = <<"Resume_", "Acme", "_", "Corp", ".docx">>


(***************************************************************************)
(* Edge functions: requests, the AI collaborator and its replies           *)
(***************************************************************************)
MaxContentLen == 4
MaxPad == 1

\* The Authorization header: absent, present without the "Bearer " prefix, a
\* bearer token that resolves to no user, a bearer token of a user.
AuthKinds == {"none", "notBearer", "badToken", "valid"}

\* authHeader?.startsWith("Bearer ")
StartsWithBearer(auth) == auth \in {"badToken", "valid"}

\* supabase.auth.getUser() yields a user and no error
GetUser(auth) == auth = "valid"

ErrorResponse(status, error) ==
    [status |-> status, success |-> FALSE, error |-> error, data |-> NoData]

SuccessResponse(data) ==
    [status |-> 200, success |-> TRUE, error |-> "", data |-> data]

\* What a handler does at the await of fetch: it has answered, or it has sent
\* a call to the collaborator.
Answer(r) == [response |-> r, call |-> NoCall]
Ask(c) == [response |-> NoResponse, call |-> c]

\* The message content of a completion, cut into pieces: a code fence, the
\* word json, white space, the text of a JSON object, text that is not JSON.
Fence == "<fence>"      \* three backquotes
JsonTag == "json"
Ws == " "
Obj == "{object}"
Junk == "Sure, here it is"
ContentTokens == {Fence, JsonTag, Ws, Obj, Junk}
Contents == SeqsUpTo(ContentTokens, MaxContentLen)

\* The value JSON.parse gives for the text Obj.
ObjValue == [resume |-> <<"tailored resume">>, coverLetter |-> <<"Dear team">>,
             whyRole |-> <<"the role">>, whyCompany |-> <<"the company">>]

RECURSIVE TrimStart(_)
TrimStart(t) == IF t # <<>> /\ Head(t) = Ws THEN TrimStart(Tail(t)) ELSE t

RECURSIVE TrimEnd(_)
TrimEnd(t) ==
    IF t # <<>> /\ t[Len(t)] = Ws THEN TrimEnd(SubSeq(t, 1, Len(t) - 1)) ELSE t

\* String.prototype.trim
Trim(t) == TrimEnd(TrimStart(t))

\* JSON.parse: white space around the value is allowed, anything else throws.
JSONparse(t) ==
    IF Trim(t) = <<Obj>> THEN [ok |-> TRUE, value |-> ObjValue]
    ELSE [ok |-> FALSE, value |-> NoData]

Min(S) == CHOOSE x \in S : \A y \in S : x <= y

FencePositions(c) == {i \in 1..Len(c) : c[i] = Fence}

\* content.match(/```(?:json)?\s*([\s\S]*?)```/): from the first fence that has
\* a fence after it, past an adjoining json and white space, lazily up to the
\* next fence; group 1 is what lies between.
FenceMatch(c) ==
    IF Cardinality(FencePositions(c)) < 2 THEN [matched |-> FALSE, group |-> <<>>]
    ELSE LET i == Min(FencePositions(c))
             j == Min({k \in FencePositions(c) : k > i})
             a == IF c[i + 1] = JsonTag THEN i + 2 ELSE i + 1
         IN [matched |-> TRUE, group |-> TrimStart(SubSeq(c, a, j - 1))]

\* content.replace(/```json|```/g, "")
RECURSIVE StripFences(_)
StripFences(c) ==
    IF c = <<>> THEN <<>>
    ELSE IF Head(c) = Fence
    THEN IF Len(c) >= 2 /\ c[2] = JsonTag
         THEN StripFences(SubSeq(c, 3, Len(c)))
         ELSE StripFences(Tail(c))
    ELSE <<Head(c)>> \o StripFences(Tail(c))

\* { resume: content, coverLetter: "", whyRole: "", whyCompany: "" }
Fallback(raw) ==
    [resume |-> raw, coverLetter |-> <<>>, whyRole |-> <<>>, whyCompany |-> <<>>]

\* What fetch gives back: it throws (the collaborator is unreachable), or a
\* response with a status, a body that is JSON or not, and
\* choices[0].message.content present or not.
Statuses == {200, 402, 429, 500}

Unreachable ==
    [kind |-> "unreachable", status |-> 0, json |-> FALSE, present |-> FALSE,
     content |-> <<>>]

Reply(status, json, present, c) ==
    [kind |-> "response", status |-> status, json |-> json, present |-> present,
     content |-> c]

ErrorContents == {<<>>, <<Obj>>, <<Fence, Obj, Fence>>, <<Junk>>}

AiReplies ==
    {Unreachable}
    \cup {Reply(st, js, FALSE, <<>>) : st \in Statuses, js \in BOOLEAN}
    \cup {Reply(200, TRUE, TRUE, c) : c \in Contents}
    \cup {Reply(st, TRUE, TRUE, c) : st \in Statuses \ {200}, c \in ErrorContents}

\* response.ok
Ok(status) == status \in 200..299

\* !content, for content = choices?.[0]?.message?.content
Falsy(reply) == ~reply.present \/ reply.content = <<>>


(***************************************************************************)
(* generate-application: index.ts, part_004, part_005 (second file)        *)
(***************************************************************************)
MAX_BULLETS == 50

NoJob == [none |-> TRUE]

MkJob(company) == [company |-> company, role |-> "Dev", rawText |-> "We are hiring"]

Jobs == {NoJob, MkJob("Acme"), MkJob("")}

\* The resumes a client sends: one entry per section, each with the same
\* bullets (enabled or not), under a filled-in header.
GenResumes ==
    {MkResume(<<sh>>, <<sh>>, <<sh>>, <<sh>>, TRUE) :
        sh \in SeqsUpTo(ShortShapes, MaxBullets)}

\* A resume with no bullets at all.
PlainResume == MkResume(<< <<>> >>, << <<>> >>, << <<>> >>, << <<>> >>, TRUE)

\* A resume whose header has no name.
NamelessResume == MkResume(<<>>, <<>>, <<>>, <<>>, FALSE)

MalformedBody == [malformed |-> TRUE]

\* The JSON values of the fields of a settings object, each with its typeof.
Num(n) == [type |-> "number", value |-> n]
Str(v) == [type |-> "string", value |-> v]
Bool(b) == [type |-> "boolean", value |-> b]
Missing == [type |-> "undefined", value |-> 0]

\* A body without settings, or with settings that are not an object.
NoSettings == [none |-> TRUE]

\* JSON.stringify of the settings of the Generate page
SettingsJson(st) ==
    [resumeLength |-> Num(st.resumeLength),
     emphasis |-> Str(st.emphasis),
     atsLevel |-> Str(st.atsLevel),
     includeCoverLetter |-> Bool(st.includeCoverLetter),
     coverLetterTone |-> Str(st.coverLetterTone),
     generateWhyQuestions |-> Bool(st.generateWhyQuestions)]

GenBody(m, j) ==
    [malformed |-> FALSE, masterResume |-> m, jobDescription |-> j,
     settings |-> SettingsJson(InitialSettings)]

\* Settings as a client can send them: those of the page, and those with one
\* field outside its options, of another type or missing.
SentSettings ==
    {NoSettings}
    \cup {[SettingsJson(InitialSettings) EXCEPT !.resumeLength = v] :
             v \in {Num(0), Num(2), Num(3), Num(7), Str("2"), Missing}}
    \cup {[SettingsJson(InitialSettings) EXCEPT !.emphasis = v] :
             v \in {Str("technical"), Str("creative"), Missing}}
    \cup {[SettingsJson(InitialSettings) EXCEPT !.atsLevel = v] :
             v \in {Str("low"), Str("maximum"), Num(3)}}
    \cup {[SettingsJson(InitialSettings) EXCEPT !.coverLetterTone = v] :
             v \in {Str("enthusiastic"), Str("sarcastic"), Str(""), Missing}}
    \cup {[SettingsJson(InitialSettings) EXCEPT !.includeCoverLetter = v,
                                               !.generateWhyQuestions = v] :
             v \in {Bool(FALSE), Str("no"), Missing}}

\* The bodies of generation requests: not JSON; every resume with a job; a
\* resume or a job missing; the name or the company missing.
GenBodies ==
    {MalformedBody}
    \cup {GenBody(m, MkJob("Acme")) : m \in GenResumes \cup {NoMaster, NamelessResume}}
    \cup {GenBody(PlainResume, j) : j \in Jobs}
    \cup {[GenBody(PlainResume, MkJob("Acme")) EXCEPT !.settings = st] :
             st \in SentSettings}

GenVersions == {"index", "part_004", "part_005"}

GenCall(resumeData, job, st) ==
    [sent |-> TRUE, endpoint |-> "generate", resume |-> resumeData, job |-> job,
     settings |-> st]

Take(seq, n) == SubSeq(seq, 1, IF Len(seq) < n THEN Len(seq) ELSE n)

\* validateString of a field that may be missing: "" unless it is a string
\* (the strings of the model are trimmed and within every maxLength)
StringField(obj, field) == IF field \in DOMAIN obj THEN obj[field] ELSE ""

\* validateBullets: at most MAX_BULLETS, each cut down to id, text, enabled
\* (enabled is false unless it is a boolean)
validateBullets(bullets) ==
    [k \in 1..Len(Take(bullets, MAX_BULLETS)) |->
        [id      |-> StringField(bullets[k], "id"),
         text    |-> StringField(bullets[k], "text"),
         enabled |-> IF "enabled" \in DOMAIN bullets[k] THEN bullets[k].enabled
                     ELSE FALSE]]

WithValidBullets(entries, n) ==
    [e \in 1..Len(Take(entries, n)) |->
        [entries[e] EXCEPT !.bullets = validateBullets(@)]]

\* validateMasterResume of an object with a header; the leadership entries go
\* through validateBullets, as if they were bullets.
validateMasterResume(data) ==
    [header     |-> data.header,
     education  |-> WithValidBullets(data.education, 20),
     experience |-> WithValidBullets(data.experience, 30),
     projects   |-> WithValidBullets(data.projects, 30),
     skills     |-> data.skills,
     leadership |-> validateBullets(data.leadership)]

WithEnabledBullets(entries) ==
    [e \in 1..Len(entries) |-> [entries[e] EXCEPT !.bullets = EnabledBullets(@)]]

\* Math.min(Math.max(n, 1), 3)
Clamp(n) == IF n < 1 THEN 1 ELSE IF n > 3 THEN 3 ELSE n

\* [...].includes(settings.emphasis)
validEmphasis(v) ==
    v.type = "string" /\ v.value \in {"technical", "leadership", "business", "balanced"}

\* validateSettings of part_004 and part_005: the defaults unless the data is
\* an object, and each field checked on its own
validateSettings(data) ==
    IF "none" \in DOMAIN data
    THEN [resumeLength |-> Num(1), emphasis |-> Str("balanced"),
          atsLevel |-> Str("medium"), includeCoverLetter |-> Bool(TRUE),
          coverLetterTone |-> Str("professional"), generateWhyQuestions |-> Bool(TRUE)]
    ELSE [resumeLength |-> IF data.resumeLength.type = "number"
                           THEN Num(Clamp(data.resumeLength.value)) ELSE Num(1),
          emphasis |-> IF validEmphasis(data.emphasis) THEN data.emphasis
                       ELSE Str("balanced"),
          atsLevel |-> IF data.atsLevel.type = "string"
                          /\ data.atsLevel.value \in {"low", "medium", "high"}
                       THEN data.atsLevel ELSE Str("medium"),
          includeCoverLetter |-> IF data.includeCoverLetter.type = "boolean"
                                 THEN data.includeCoverLetter ELSE Bool(TRUE),
          coverLetterTone |->
              Str(OrElse(IF data.coverLetterTone.type = "string"
                         THEN data.coverLetterTone.value ELSE "",
                         "professional")),
          generateWhyQuestions |-> IF data.generateWhyQuestions.type = "boolean"
                                   THEN data.generateWhyQuestions ELSE Bool(TRUE)]

\* enabledExperience, enabledEducation, enabledProjects, enabledLeadership:
\* what resumeContext is written from
resumeContext(resume) ==
    [header     |-> resume.header,
     education  |-> WithEnabledBullets(resume.education),
     experience |-> WithEnabledBullets(resume.experience),
     projects   |-> WithEnabledBullets(resume.projects),
     skills     |-> resume.skills,
     leadership |-> EnabledBullets(resume.leadership)]

\* generate-application/index.ts up to the await of fetch
GenerateIndexReceive(req, hasKey) ==
    IF ~StartsWithBearer(req.auth)
    THEN Answer(ErrorResponse(401, "Authentication required"))
    ELSE IF ~GetUser(req.auth)
    THEN Answer(ErrorResponse(401, "Invalid authentication"))
    ELSE IF req.body.malformed      \* req.json() throws into the outer catch
    THEN Answer(ErrorResponse(500, "Internal server error"))
    ELSE IF req.body.masterResume = NoMaster \/ req.body.jobDescription = NoJob
    THEN Answer(ErrorResponse(400, "Missing input data"))
    ELSE IF ~hasKey
    THEN Answer(ErrorResponse(503, "AI service not configured"))
    ELSE Ask(GenCall(req.body.masterResume, req.body.jobDescription, req.body.settings))

\* generate-application/index.ts from the answer of fetch on
GenerateIndexComplete(reply) ==
    IF reply.kind = "unreachable" \/ ~Ok(reply.status) \/ ~reply.json \/ Falsy(reply)
    THEN ErrorResponse(500, "Internal server error")
    ELSE LET parsed == JSONparse(Trim(StripFences(reply.content)))
         IN IF parsed.ok THEN SuccessResponse(parsed.value)
            ELSE ErrorResponse(500, "Internal server error")

\* part_004 up to the await of fetch
GeneratePart004Receive(req, hasKey) ==
    IF ~StartsWithBearer(req.auth)
    THEN Answer(ErrorResponse(401, "Authentication required"))
    ELSE IF ~GetUser(req.auth)
    THEN Answer(ErrorResponse(401, "Invalid authentication"))
    ELSE IF req.body.malformed
    THEN Answer(ErrorResponse(400, "Invalid request body"))
    ELSE IF req.body.masterResume = NoMaster \/ req.body.jobDescription = NoJob
    THEN Answer(ErrorResponse(400, "Resume and job description required"))
    ELSE IF ~hasKey
    THEN Answer(ErrorResponse(503, "Service unavailable"))
    ELSE Ask(GenCall(validateMasterResume(req.body.masterResume),
                     req.body.jobDescription, validateSettings(req.body.settings)))

\* part_004 from the answer of fetch on
GeneratePart004Complete(reply) ==
    IF reply.kind = "unreachable" \/ ~reply.json
    THEN ErrorResponse(500, "Unexpected error occurred")
    ELSE LET text == IF Falsy(reply) THEN <<>> ELSE reply.content
             jsonMatch == FenceMatch(text)
             parsed == JSONparse(Trim(jsonMatch.group))
         IN SuccessResponse(IF jsonMatch.matched /\ parsed.ok THEN parsed.value
                            ELSE Fallback(text))

\* part_005 (second file) up to the await of fetch
GeneratePart005Receive(req, hasKey) ==
    IF ~StartsWithBearer(req.auth)
    THEN Answer(ErrorResponse(401, "Authentication required"))
    ELSE IF ~GetUser(req.auth)
    THEN Answer(ErrorResponse(401, "Invalid authentication"))
    ELSE IF req.body.malformed
    THEN Answer(ErrorResponse(400, "Invalid request body"))
    ELSE IF req.body.masterResume = NoMaster \/ req.body.jobDescription = NoJob
    THEN Answer(ErrorResponse(400, "Resume and job description are required"))
    ELSE IF ~Truthy(req.body.masterResume.header.name)
            \/ ~Truthy(req.body.jobDescription.company)
    THEN Answer(ErrorResponse(400, "Resume name and job company are required"))
    ELSE IF ~hasKey
    THEN Answer(ErrorResponse(503, "Service temporarily unavailable"))
    ELSE Ask(GenCall(resumeContext(validateMasterResume(req.body.masterResume)),
                     req.body.jobDescription, validateSettings(req.body.settings)))

\* part_005 (second file) from the answer of fetch on
GeneratePart005Complete(reply) ==
    IF reply.kind = "unreachable"
    THEN ErrorResponse(500, "An unexpected error occurred")
    ELSE IF ~Ok(reply.status)
    THEN IF reply.status = 429
         THEN ErrorResponse(429, "Rate limit exceeded. Please try again later.")
         ELSE IF reply.status = 402
         THEN ErrorResponse(402, "Service quota exceeded. Please try again later.")
         ELSE ErrorResponse(500, "Failed to process request")
    ELSE IF ~reply.json
    THEN ErrorResponse(500, "An unexpected error occurred")
    ELSE IF Falsy(reply)
    THEN ErrorResponse(500, "Failed to process request")
    ELSE LET jsonMatch == FenceMatch(reply.content)
             jsonStr == IF jsonMatch.matched THEN Trim(jsonMatch.group)
                        ELSE reply.content
             parsed == JSONparse(jsonStr)
         IN IF parsed.ok THEN SuccessResponse(parsed.value)
            ELSE SuccessResponse(Fallback(reply.content))

ReceiveGenerate(version, auth, body, hasKey) ==
    /\ handlerPc = "idle"
    /\ validation = NoValidation
    /\ LET req == [endpoint |-> "generate", version |-> version, auth |-> auth,
                   method |-> "POST", body |-> body]
           r == CASE version = "index"    -> GenerateIndexReceive(req, hasKey)
                  [] version = "part_004" -> GeneratePart004Receive(req, hasKey)
                  [] version = "part_005" -> GeneratePart005Receive(req, hasKey)
       IN /\ request' = req
          /\ aiCall' = r.call
          /\ response' = r.response
          /\ handlerPc' = IF r.call.sent THEN "awaitingAI" ELSE "done"
    /\ UNCHANGED <<aiReply, validation, exportVars, masterResume, toast, pageVars, saveVars>>
    /\ UNCHANGED trackerVars

CompleteGenerate(reply) ==
    /\ handlerPc = "awaitingAI"
    /\ request.endpoint = "generate"
    /\ aiReply' = reply
    /\ response' = CASE request.version = "index"    -> GenerateIndexComplete(reply)
                     [] request.version = "part_004" -> GeneratePart004Complete(reply)
                     [] request.version = "part_005" -> GeneratePart005Complete(reply)
    /\ handlerPc' = "done"
    /\ UNCHANGED <<request, aiCall, validation, exportVars, masterResume, toast, pageVars, saveVars>>
    /\ UNCHANGED trackerVars


(***************************************************************************)
(* parse-job-description: index.ts (its two versions) and part_003         *)
(***************************************************************************)
MinJobTextLength == 50
MaxJobTextLength == 50000

\* A jobText of a request body: missing, not a string, or a string of `len`
\* characters between `pad` characters of white space.
JobTextLengths ==
    {0, 1, MinJobTextLength - 1, MinJobTextLength, MinJobTextLength + 1,
     MaxJobTextLength - 1, MaxJobTextLength, MaxJobTextLength + 1}

JobTexts ==
    {[kind |-> k, len |-> 0, pad |-> 0] : k \in {"missing", "number"}}
    \cup {[kind |-> "string", len |-> n, pad |-> w] :
             n \in JobTextLengths, w \in 0..MaxPad}

\* jobText.trim().length
TrimmedLength(jobText) == jobText.len

Invalid(error) == [valid |-> FALSE, error |-> error, value |-> 0]

\* validateJobText of parse-job-description/index.ts, first version
validateJobText(jobText) ==
    IF jobText.kind # "string" THEN Invalid("Job description must be a string")
    ELSE IF TrimmedLength(jobText) = 0 THEN Invalid("Job description is required")
    ELSE IF TrimmedLength(jobText) < MinJobTextLength
    THEN Invalid("Job description is too short")
    ELSE IF TrimmedLength(jobText) > MaxJobTextLength
    THEN Invalid("Job description is too long (max 50,000 characters)")
    ELSE [valid |-> TRUE, error |-> "", value |-> TrimmedLength(jobText)]

\* validateJobText of parse-job-description/index.ts, second version
validateJobText2(jobText) ==
    IF jobText.kind # "string" THEN Invalid("Job description must be a string")
    ELSE IF TrimmedLength(jobText) = 0 THEN Invalid("Job description is required")
    ELSE IF TrimmedLength(jobText) < MinJobTextLength
    THEN Invalid("Job description too short")
    ELSE [valid |-> TRUE, error |-> "", value |-> TrimmedLength(jobText)]

ParseBodies == {MalformedBody} \cup {[malformed |-> FALSE, jobText |-> t] : t \in JobTexts}

ParseVersions == {"v1", "v2"}

ParseCall(len) == [sent |-> TRUE, endpoint |-> "parse", jobTextLength |-> len]

\* first version up to the await of fetch
ParseV1Receive(req, hasKey) ==
    IF ~StartsWithBearer(req.auth)
    THEN Answer(ErrorResponse(401, "Authentication required"))
    ELSE IF ~GetUser(req.auth)
    THEN Answer(ErrorResponse(401, "Invalid authentication"))
    ELSE IF req.body.malformed
    THEN Answer(ErrorResponse(400, "Invalid request body"))
    ELSE IF ~validateJobText(req.body.jobText).valid
    THEN Answer(ErrorResponse(400, validateJobText(req.body.jobText).error))
    ELSE IF ~hasKey
    THEN Answer(ErrorResponse(503, "Service temporarily unavailable"))
    ELSE Ask(ParseCall(validateJobText(req.body.jobText).value))

\* first version from the answer of fetch on
ParseV1Complete(reply) ==
    IF reply.kind = "unreachable"
    THEN ErrorResponse(500, "An unexpected error occurred")
    ELSE IF ~Ok(reply.status)
    THEN IF reply.status = 429
         THEN ErrorResponse(429, "Rate limit exceeded. Please try again later.")
         ELSE IF reply.status = 402
         THEN ErrorResponse(402, "Service quota exceeded. Please try again later.")
         ELSE ErrorResponse(500, "Failed to process request")
    ELSE IF ~reply.json
    THEN ErrorResponse(500, "An unexpected error occurred")
    ELSE IF Falsy(reply)
    THEN ErrorResponse(500, "Failed to process request")
    ELSE LET jsonMatch == FenceMatch(reply.content)
             jsonStr == IF jsonMatch.matched THEN Trim(jsonMatch.group)
                        ELSE reply.content
             parsed == JSONparse(jsonStr)
         IN IF parsed.ok THEN SuccessResponse(parsed.value)
            ELSE ErrorResponse(500, "Failed to process response")

\* console.log("PAYLOAD KEYS:", Object.keys(payload)) names a binding that
\* does not exist: evaluating it throws a ReferenceError, inside the try whose
\* catch answers 400.
PayloadLogThrows == TRUE

\* second version up to the await of fetch
ParseV2Receive(req, hasKey) ==
    IF ~StartsWithBearer(req.auth)
    THEN Answer(ErrorResponse(401, "Authentication required"))
    ELSE IF ~GetUser(req.auth)
    THEN Answer(ErrorResponse(401, "Invalid authentication"))
    ELSE IF req.body.malformed \/ PayloadLogThrows
    THEN Answer(ErrorResponse(400, "Invalid JSON body"))
    ELSE IF req.body.jobText.kind = "missing"
    THEN Answer(ErrorResponse(400, "Missing jobText field"))
    ELSE IF ~validateJobText2(req.body.jobText).valid
    THEN Answer(ErrorResponse(400, validateJobText2(req.body.jobText).error))
    ELSE IF ~hasKey
    THEN Answer(ErrorResponse(503, "AI service not configured"))
    ELSE Ask(ParseCall(validateJobText2(req.body.jobText).value))

\* second version from the answer of fetch on
ParseV2Complete(reply) ==
    IF reply.kind = "unreachable" \/ ~reply.json
    THEN ErrorResponse(500, "Unexpected server error")
    ELSE IF Falsy(reply)
    THEN ErrorResponse(500, "Empty AI response")
    ELSE IF JSONparse(reply.content).ok
    THEN SuccessResponse(JSONparse(reply.content).value)
    ELSE ErrorResponse(500, "AI returned invalid JSON")

\* part_003: no Authorization header is read; parseJobDescription comes from
\* ./parser.ts and gives null or the parsed job.
ParserServe(req, parserAccepts) ==
    IF req.method # "POST" THEN ErrorResponse(405, "Method not allowed")
    ELSE IF req.body.malformed THEN ErrorResponse(400, "Invalid JSON body")
    ELSE IF ~parserAccepts THEN ErrorResponse(400, "Invalid job description")
    ELSE [status |-> 200, success |-> FALSE, error |-> "", data |-> ObjValue]

ReceiveParse(version, auth, body, hasKey) ==
    /\ handlerPc = "idle"
    /\ validation = NoValidation
    /\ LET req == [endpoint |-> "parse", version |-> version, auth |-> auth,
                   method |-> "POST", body |-> body]
           r == CASE version = "v1" -> ParseV1Receive(req, hasKey)
                  [] version = "v2" -> ParseV2Receive(req, hasKey)
       IN /\ request' = req
          /\ aiCall' = r.call
          /\ response' = r.response
          /\ handlerPc' = IF r.call.sent THEN "awaitingAI" ELSE "done"
    /\ UNCHANGED <<aiReply, validation, exportVars, masterResume, toast, pageVars, saveVars>>
    /\ UNCHANGED trackerVars

CompleteParse(reply) ==
    /\ handlerPc = "awaitingAI"
    /\ request.endpoint = "parse"
    /\ aiReply' = reply
    /\ response' = CASE request.version = "v1" -> ParseV1Complete(reply)
                     [] request.version = "v2" -> ParseV2Complete(reply)
    /\ handlerPc' = "done"
    /\ UNCHANGED <<request, aiCall, validation, exportVars, masterResume, toast, pageVars, saveVars>>
    /\ UNCHANGED trackerVars

ServeParser(method, auth, body, parserAccepts) ==
    /\ handlerPc = "idle"
    /\ validation = NoValidation
    /\ LET req == [endpoint |-> "parse", version |-> "part_003", auth |-> auth,
                   method |-> method, body |-> body]
       IN /\ request' = req
          /\ response' = ParserServe(req, parserAccepts)
    /\ handlerPc' = "done"
    /\ UNCHANGED <<aiCall, aiReply, validation, exportVars, masterResume, toast, pageVars, saveVars>>
    /\ UNCHANGED trackerVars

ValidateJobText(version, jobText) ==
    /\ handlerPc = "idle"
    /\ validation = NoValidation
    /\ validation' = [version |-> version, jobText |-> jobText,
                      result |-> IF version = "v1" THEN validateJobText(jobText)
                                 ELSE validateJobText2(jobText)]
    /\ UNCHANGED <<request, handlerPc, aiCall, aiReply, response, exportVars, masterResume, toast, pageVars, saveVars>>
    /\ UNCHANGED trackerVars

NoContent == MkContent(NoMaster, <<>>)

ExportIdle == content = NoContent /\ exportOut = NoExport

InitEndpoint == EndpointIdle /\ ExportIdle /\ PagesIdle /\ SaveIdle /\ TrackerIdle

NextEndpoint ==
    \/ \E version \in GenVersions, auth \in AuthKinds, body \in GenBodies,
          hasKey \in BOOLEAN : ReceiveGenerate(version, auth, body, hasKey)
    \/ \E reply \in AiReplies : CompleteGenerate(reply)
    \/ \E version \in ParseVersions, auth \in AuthKinds, body \in ParseBodies,
          hasKey \in BOOLEAN : ReceiveParse(version, auth, body, hasKey)
    \/ \E reply \in AiReplies : CompleteParse(reply)
    \/ \E method \in {"POST", "GET"}, auth \in AuthKinds, body \in ParseBodies,
          parserAccepts \in BOOLEAN : ServeParser(method, auth, body, parserAccepts)
    \/ \E version \in ParseVersions, jobText \in JobTexts :
          ValidateJobText(version, jobText)

SpecEndpoint == InitEndpoint /\ [][NextEndpoint]_vars


(***************************************************************************)
(* Properties of the edge functions                                        *)
(***************************************************************************)
Handled(endpoint) == request.endpoint = endpoint /\ handlerPc = "done"

Unauthenticated(auth) == ~StartsWithBearer(auth) \/ ~GetUser(auth)

\* The bullet texts inside the resume data of a call to the collaborator.
BulletTexts(bullets) == {bullets[k].text : k \in 1..Len(bullets)}

EntryBulletTexts(entries) ==
    UNION {BulletTexts(entries[e].bullets) : e \in 1..Len(entries)}

SentBulletTexts(resumeData) ==
    EntryBulletTexts(resumeData.education)
    \cup EntryBulletTexts(resumeData.experience)
    \cup EntryBulletTexts(resumeData.projects)
    \cup UNION {IF "bullets" \in DOMAIN resumeData.leadership[e]
                THEN BulletTexts(resumeData.leadership[e].bullets)
                ELSE {resumeData.leadership[e].text} \ {""} :
                e \in 1..Len(resumeData.leadership)}

\* C2: whatever a generation request sends to the collaborator holds the text
\* of no disabled bullet of the master resume of the request.
C2_OnlyEnabledBulletsSent ==
    (aiCall.sent /\ aiCall.endpoint = "generate") =>
        SentBulletTexts(aiCall.resume)
            \cap DisabledTexts(request.body.masterResume) = {}

\* The collaborator could not be reached, answered with a status that is not
\* a success, or answered with no content to parse.
CollaboratorFailed(reply) ==
    \/ reply.kind = "unreachable"
    \/ ~Ok(reply.status)
    \/ ~reply.json
    \/ Falsy(reply)

\* C5: when the collaborator is unreachable, answers with a non-success
\* status or answers with no content, the generation endpoint does not answer
\* success: true.
C5_NoSuccessWhenCollaboratorFails ==
    (Handled("generate") /\ aiCall.sent /\ CollaboratorFailed(aiReply)) =>
        ~response.success

\* The content is one fenced block (with or without the json tag) around the
\* text of a JSON value.
IsFencedJson(c) ==
    /\ Len(c) >= 3
    /\ c[1] = Fence
    /\ c[Len(c)] = Fence
    /\ LET inner == SubSeq(c, 2, Len(c) - 1)
       IN Trim(IF Head(inner) = JsonTag THEN Tail(inner) ELSE inner) = <<Obj>>

\* Neither the content nor a fenced block in it is the text of a JSON value.
Unparseable(c) ==
    /\ ~JSONparse(c).ok
    /\ ~(FenceMatch(c).matched /\ JSONparse(FenceMatch(c).group).ok)

\* C6: on content that is a fenced block of valid JSON the generation endpoint
\* answers success with the embedded JSON as data; on content that cannot be
\* parsed as JSON it answers success with the raw content as resume and the
\* other three fields empty.
C6_FencedJsonParsedElseRawFallback ==
    (Handled("generate") /\ aiCall.sent /\ ~CollaboratorFailed(aiReply)) =>
        /\ IsFencedJson(aiReply.content) =>
              (response.success /\ response.data = ObjValue)
        /\ Unparseable(aiReply.content) =>
              (response.success /\ response.data = Fallback(aiReply.content))

\* C8: a request to either endpoint without a bearer token that resolves to
\* a user is answered 401, whatever its body, and nothing is sent to the
\* collaborator for it.
C8_UnauthenticatedAnswered401 ==
    (request.endpoint \in {"generate", "parse"} /\ Unauthenticated(request.auth)) =>
        (response.status = 401 /\ ~aiCall.sent)

\* jobText is a string of 50 to 50,000 characters after trimming.
JobTextInRange(jobText) ==
    /\ jobText.kind = "string"
    /\ TrimmedLength(jobText) >= MinJobTextLength
    /\ TrimmedLength(jobText) <= MaxJobTextLength

\* C9: validateJobText (either version) calls jobText valid iff it is a string
\* of 50 to 50,000 characters after trimming, and the handler of an
\* authenticated request with a JSON body goes on to the collaborator if it
\* is, and answers 400 without a call to the collaborator if it is not.
C9_JobTextAcceptedIffInRange ==
    /\ validation # NoValidation =>
          (validation.result.valid <=> JobTextInRange(validation.jobText))
    /\ (/\ request.endpoint = "parse"
        /\ request.version \in ParseVersions
        /\ ~Unauthenticated(request.auth)
        /\ ~request.body.malformed) =>
          IF JobTextInRange(request.body.jobText)
          THEN response.status # 400
          ELSE response.status = 400 /\ ~aiCall.sent

\* The options of each setting.
ValidSettings(st) ==
    /\ "none" \notin DOMAIN st
    /\ st.resumeLength.type = "number" /\ st.resumeLength.value \in 1..2
    /\ st.emphasis.type = "string"
       /\ st.emphasis.value \in {"technical", "balanced", "leadership", "business"}
    /\ st.atsLevel.type = "string" /\ st.atsLevel.value \in {"low", "medium", "high"}
    /\ st.coverLetterTone.type = "string"
       /\ st.coverLetterTone.value \in {"professional", "conversational", "enthusiastic"}
    /\ st.includeCoverLetter.type = "boolean"
    /\ st.generateWhyQuestions.type = "boolean"

\* C21: the settings that accompany a request sent to the collaborator have
\* resumeLength in 1..2, emphasis, atsLevel and coverLetterTone among their
\* options and two booleans; a value outside these is never forwarded.
C21_ForwardedSettingsValid ==
    (aiCall.sent /\ aiCall.endpoint = "generate") => ValidSettings(aiCall.settings)

\* What the validating versions do ensure: resumeLength is a number from 1
\* to 3, emphasis and atsLevel are options, the tone is a string that is not
\* empty, and the two flags are booleans.
ValidatedSettingsInRange ==
    (aiCall.sent /\ aiCall.endpoint = "generate" /\ request.version # "index") =>
        LET st == aiCall.settings
        IN /\ st.resumeLength.type = "number" /\ st.resumeLength.value \in 1..3
           /\ validEmphasis(st.emphasis)
           /\ st.atsLevel.type = "string" /\ st.atsLevel.value \in {"low", "medium", "high"}
           /\ st.coverLetterTone.type = "string" /\ st.coverLetterTone.value # ""
           /\ st.includeCoverLetter.type = "boolean"
           /\ st.generateWhyQuestions.type = "boolean"

(***************************************************************************)
(* Dates.  A date-time is a number of slots since local midnight of day 0, *)
(* a Sunday; a date string is kept as what it says.                        *)
(***************************************************************************)
SlotsPerDay == 4           \* 00:00, a morning hour, midday, an evening hour

NoDate == [kind |-> "empty", day |-> 0, slot |-> 0]            \* ''
DateOnly(day) == [kind |-> "date", day |-> day, slot |-> 0]    \* 'YYYY-MM-DD'
Instant(day, slot) == [kind |-> "instant", day |-> day, slot |-> slot]

\* lib/dateUtils parseDate
parseDate(dateString, current) ==
    IF dateString.kind = "empty" THEN current
    ELSE dateString.day * SlotsPerDay + dateString.slot

\* lib/dateUtils parseDateTime; time is the slot of 'HH:MM', 0 for '' and '00:00'
parseDateTime(date, time, current) ==
    IF date.kind = "empty" THEN current
    ELSE date.day * SlotsPerDay + time

DayOf(t) == t \div SlotsPerDay

\* date-fns
isToday(t, current) == DayOf(t) = DayOf(current)
isFuture(t, current) == t > current
isPast(t, current) == t < current

\* Date.prototype.getDay: 0 for Sunday
getDay(t) == DayOf(t) % 7

(***************************************************************************)
(* The tables of the migration and the reads and writes of DataSyncContext. *)
(* undefined is Absent and SQL NULL is Null; an optional list or object     *)
(* that an object does not carry is a field the record does not have.  The  *)
(* user is logged in.                                                       *)
(***************************************************************************)
Null == "<null>"

\* JSONB null
JsonNull == [null |-> TRUE]

\* v || null
OrNull(v) == IF Truthy(v) THEN v ELSE Null

\* column || d
ColumnOr(v, d) == IF v = Null \/ ~Truthy(v) THEN d ELSE v

\* obj[field] || [] of an optional list
ListOrEmpty(obj, field) == IF field \in DOMAIN obj THEN obj[field] ELSE <<>>

\* new Date().toISOString()
toISOString(t) == Instant(DayOf(t), t % SlotsPerDay)

\* now() of the database, as a timestamptz
DbNow(t) == [kind |-> "timestamptz", day |-> DayOf(t), slot |-> t % SlotsPerDay]

\* The row of public.job_descriptions that syncJobDescription(job, 'add')
\* inserts; the database generates the id.
JobRow(job, id, at) ==
    [id |-> id, company |-> job.company, role |-> job.role, location |-> job.location,
     salary |-> job.salary, job_type |-> job.jobType, industry |-> job.industry,
     raw_text |-> job.rawText, required_skills |-> job.requiredSkills,
     keywords |-> job.keywords, created_at |-> DbNow(at), updated_at |-> DbNow(at)]

\* syncJobDescription(job, 'update'): the rows after .update({...}).eq('id',
\* job.id); the trigger update_job_descriptions_updated_at stamps each row.
UpdateJobRows(rows, job, at) ==
    {IF r.id # job.id THEN r
     ELSE [r EXCEPT !.company = job.company, !.role = job.role,
                    !.location = job.location, !.salary = job.salary,
                    !.job_type = job.jobType, !.industry = job.industry,
                    !.raw_text = job.rawText, !.required_skills = job.requiredSkills,
                    !.keywords = job.keywords, !.updated_at = DbNow(at)] : r \in rows}

\* A faulty variant: the applications of the job go with it (ON DELETE CASCADE)
SetNullOnDelete_Cascade(rows, jobId, at) ==
    {r \in rows : r.job_description_id # jobId}

\* job_description_id ... REFERENCES job_descriptions(id) ON DELETE SET NULL:
\* the rows of public.applications after the job is deleted.  The update is
\* one more UPDATE of the row, so update_applications_updated_at stamps it.
SetNullOnDelete(rows, jobId, at) ==
    {IF r.job_description_id # jobId THEN r
     ELSE [r EXCEPT !.job_description_id = Null, !.updated_at = DbNow(at)] : r \in rows}

\* The row of public.applications that syncApplication(app, 'add') inserts.
\* A key whose value is undefined is not sent and the column takes its
\* default; created_at and updated_at are never sent.
ApplicationRow(app, at) ==
    [id |-> app.id,
     job_description_id |-> OrNull(app.jobDescriptionId),
     company |-> app.company,
     role |-> app.role,
     status |-> app.status,
     applied_date |-> app.applicationDate,
     notes |-> app.notes,
     application_link |-> OrNull(app.applicationLink),
     generated_resume |-> IF Truthy(app.savedResume)
                          THEN [fullText |-> app.savedResume] ELSE JsonNull,
     cover_letter |-> IF app.savedCoverLetter = Absent THEN Null
                      ELSE app.savedCoverLetter,
     interviews |-> ListOrEmpty(app, "interviews"),
     reminders |-> ListOrEmpty(app, "reminders"),
     created_at |-> DbNow(at),
     updated_at |-> DbNow(at)]

\* The error of the insert, Absent if there is none: the request does not
\* arrive, the primary key is taken, or the job referenced has no row.
InsertError(app, arrives) ==
    IF ~arrives THEN "Failed to fetch"
    ELSE IF \E r \in applicationTable : r.id = app.id THEN "duplicate key"
    ELSE IF Truthy(app.jobDescriptionId)
            /\ ~\E j \in jobTable : j.id = app.jobDescriptionId
    THEN "foreign key violation"
    ELSE Absent

\* loadData: one job description of the store from its row
LoadedJob(job) ==
    [id |-> job.id, company |-> job.company, role |-> job.role,
     location |-> ColumnOr(job.location, ""),
     salary |-> ColumnOr(job.salary, Absent),
     jobType |-> ColumnOr(job.job_type, "full-time"),
     industry |-> ColumnOr(job.industry, ""),
     rawText |-> job.raw_text,
     requiredSkills |-> job.required_skills,
     keywords |-> job.keywords,
     createdAt |-> job.created_at]

\* loadData: one application of the store from its row
LoadedApplication(app) ==
    [id |-> app.id,
     jobDescriptionId |-> ColumnOr(app.job_description_id, ""),
     company |-> app.company,
     role |-> app.role,
     location |-> "",
     salary |-> Absent,
     jobType |-> "",
     industry |-> "",
     applicationDate |-> app.applied_date,
     resumeVersion |-> "",
     status |-> app.status,
     notes |-> ColumnOr(app.notes, ""),
     connections |-> <<>>,
     applicationLink |-> ColumnOr(app.application_link, Absent),
     savedResume |-> IF "fullText" \in DOMAIN app.generated_resume
                     THEN OrElse(app.generated_resume.fullText, Absent) ELSE Absent,
     savedCoverLetter |-> ColumnOr(app.cover_letter, Absent),
     interviews |-> app.interviews,
     reminders |-> app.reminders,
     createdAt |-> app.created_at,
     updatedAt |-> app.updated_at]

\* .order('created_at', { ascending: false }): the orders in which the rows
\* can come back; rows of the same instant come in either order.
NewestFirst(rows) ==
    {order \in [1..Cardinality(rows) -> rows] :
        /\ \A i, j \in DOMAIN order : i # j => order[i] # order[j]
        /\ \A i, j \in DOMAIN order :
              i < j => parseDate(order[i].created_at, 0) >= parseDate(order[j].created_at, 0)}

\* loadData: the master resume from its row, the defaults when there is none.
\* A row that saveMasterResume wrote carries every field.
LoadedResume(row) == IF row = NoMaster THEN defaultResume ELSE row

(***************************************************************************)
(* lib/api: generateApplication                                            *)
(***************************************************************************)
Threw(message) == [threw |-> TRUE, message |-> message, data |-> NoData]
Returned(data) == [threw |-> FALSE, message |-> "", data |-> data]

GeneratedContents ==
    {[resume |-> "resume " \o v, coverLetter |-> "letter " \o v,
      whyRole |-> "role " \o v, whyCompany |-> "company " \o v] : v \in {"A", "B"}}

\* What getSession and supabase.functions.invoke give back: whether there is a
\* session, the error of invoke (Absent if none) and the body of the answer.
InvokeOutcomes ==
    {[session |-> FALSE, error |-> Absent, success |-> FALSE, dataError |-> Absent,
      data |-> NoData]}
    \cup {[session |-> TRUE, error |-> e, success |-> FALSE, dataError |-> Absent,
           data |-> NoData] : e \in {"", "Edge Function returned a non-2xx status code"}}
    \cup {[session |-> TRUE, error |-> Absent, success |-> FALSE, dataError |-> e,
           data |-> NoData] : e \in {Absent, "Internal server error"}}
    \cup {[session |-> TRUE, error |-> Absent, success |-> TRUE, dataError |-> Absent,
           data |-> d] : d \in GeneratedContents}

generateApplication(outcome) ==
    IF ~outcome.session THEN Threw("User not authenticated")
    ELSE IF outcome.error # Absent
    THEN Threw(OrElse(outcome.error, "Failed to generate application"))
    ELSE IF ~outcome.success
    THEN Threw(OrElse(outcome.dataError, "Failed to generate application"))
    ELSE Returned(outcome.data)

(***************************************************************************)
(* The GenerateApplication page                                            *)
(***************************************************************************)
StoredJob(n) ==
    [id |-> "job-" \o ToString(n), company |-> "Company" \o ToString(n), role |-> "Dev",
     location |-> "", salary |-> "", jobType |-> "full-time", industry |-> "",
     requiredSkills |-> <<>>, keywords |-> <<>>, rawText |-> [len |-> 50, pad |-> 0]]

\* jobDescriptions.find(j => j.id === selectedJobId)
selectedJob ==
    IF \E k \in 1..Len(jobDescriptions) : jobDescriptions[k].id = selectedJobId
    THEN jobDescriptions[CHOOSE k \in 1..Len(jobDescriptions) :
                            /\ jobDescriptions[k].id = selectedJobId
                            /\ \A h \in 1..(k - 1) : jobDescriptions[h].id # selectedJobId]
    ELSE NoJob

isResumeComplete == Truthy(masterResume.header.name) /\ Len(masterResume.experience) > 0

\* The page renders its controls only past the two EmptyState returns.
GeneratePageShown ==
    location = "/generate" /\ isResumeComplete /\ Len(jobDescriptions) # 0

\* Select onValueChange={setSelectedJobId}
SetSelectedJobId(id) ==
    /\ GeneratePageShown
    /\ selectedJobId' = id
    /\ UNCHANGED <<isGenerating, generatedContent, settings, showSaveDialog, generating,
                   exported, location, jobDescriptions, applications, jobsVars,
                   masterResume, toast, saveVars, exportVars, endpointVars>>
    /\ UNCHANGED trackerVars

\* Switch onCheckedChange={(v) => setSettings({ ...settings, includeCoverLetter: v })}
SetSettings(v) ==
    /\ GeneratePageShown
    /\ settings' = [settings EXCEPT !.includeCoverLetter = v]
    /\ UNCHANGED <<selectedJobId, isGenerating, generatedContent, showSaveDialog,
                   generating, exported, location, jobDescriptions, applications,
                   jobsVars, masterResume, toast, saveVars, exportVars, endpointVars>>
    /\ UNCHANGED trackerVars

\* A faulty variant: the button stays enabled while a call is outstanding.
GenerateDisabled_IgnoresBusy == selectedJobId = ""
\* the Generate button: disabled={!selectedJobId || isGenerating}
GenerateDisabled == selectedJobId = "" \/ isGenerating

\* handleGenerate up to the await of generateApplication
HandleGenerate ==
    /\ GeneratePageShown
    /\ ~GenerateDisabled
    /\ IF selectedJob = NoJob \/ ~isResumeComplete
       THEN UNCHANGED <<isGenerating, generating>>
       ELSE /\ isGenerating' = TRUE
            /\ generating' = Append(generating,
                                    [masterResume |-> masterResume,
                                     jobDescription |-> selectedJob,
                                     settings |-> settings])
    /\ UNCHANGED <<selectedJobId, generatedContent, settings, showSaveDialog, exported,
                   location, jobDescriptions, applications, jobsVars, masterResume,
                   toast, saveVars, exportVars, endpointVars>>
    /\ UNCHANGED trackerVars

RemoveAt(s, i) == SubSeq(s, 1, i - 1) \o SubSeq(s, i + 1, Len(s))

\* handleGenerate from the await on: try, catch and finally.  The state
\* setters of a page that is no longer mounted do nothing.
GenerateSettles(i, outcome) ==
    /\ i \in 1..Len(generating)
    /\ generating' = RemoveAt(generating, i)
    /\ LET result == generateApplication(outcome) IN
       /\ toast' = IF result.threw THEN "Generation failed" ELSE "Application generated"
       /\ IF location = "/generate"
          THEN /\ generatedContent' = IF result.threw THEN generatedContent
                                      ELSE result.data
               /\ generatedFor' = IF result.threw THEN generatedFor
                                  ELSE generating[i].jobDescription
               /\ isGenerating' = FALSE
          ELSE UNCHANGED <<generatedContent, generatedFor, isGenerating>>
    /\ UNCHANGED <<selectedJobId, settings, showSaveDialog, exported, location,
                   jobDescriptions, applications, jobsVars, masterResume, saveVars,
                   exportVars, endpointVars>>
    /\ UNCHANGED <<dashboardVars, tableVars, dateVars, dialogVars, sessionVars>>

\* The entries of the Export menu.
ExportChoices ==
    {<<"pdf", "resume">>, <<"docx", "resume">>, <<"txt", "resume">>, <<"pdf", "both">>}
    \cup (IF settings.includeCoverLetter
          THEN {<<"pdf", "coverLetter">>, <<"docx", "coverLetter">>}
          ELSE {})

\* handleExport; the exporter either completes or throws
HandleExport(format, type, completes) ==
    /\ GeneratePageShown
    /\ generatedContent # NoData
    /\ <<format, type>> \in ExportChoices
    /\ IF selectedJob = NoJob
       THEN UNCHANGED <<exported, toast>>
       ELSE /\ exported' = [format |-> format, type |-> type,
                            companyName |-> selectedJob.company,
                            resume |-> OrElse(generatedContent.resume, "")]
            /\ toast' = IF completes THEN "Export complete" ELSE "Export failed"
    /\ UNCHANGED <<selectedJobId, isGenerating, generatedContent, settings,
                   showSaveDialog, generating, location, jobDescriptions, applications,
                   jobsVars, masterResume, saveVars, exportVars, endpointVars>>
    /\ UNCHANGED trackerVars

\* handleOpenSaveDialog, and the Cancel button of the dialog
SetShowSaveDialog(open) ==
    /\ GeneratePageShown
    /\ generatedContent # NoData
    /\ showSaveDialog # open
    /\ showSaveDialog' = open
    /\ UNCHANGED <<selectedJobId, isGenerating, generatedContent, settings, generating,
                   exported, location, jobDescriptions, applications, jobsVars,
                   masterResume, toast, saveVars, exportVars, endpointVars>>
    /\ UNCHANGED trackerVars

\* The ids crypto.randomUUID() can give.
UUIDs == {"uuid-1", "uuid-2"}

\* What the save dialog holds when Save is pressed: hasConnection,
\* connectionInfo and applicationLink.
SaveDialogs ==
    {[hasConnection |-> "no", name |-> "", contactInfo |-> "", email |-> "",
      applicationLink |-> link] : link \in {"", "https://jobs.example/1"}}
    \cup {[hasConnection |-> "yes", name |-> "Grace", contactInfo |-> "",
           email |-> "grace@example.com", applicationLink |-> ""]}

\* handleConfirmSave: finalConnectionInfo
FinalConnectionInfo(dialog) ==
    [hasConnection |-> dialog.hasConnection = "yes",
     name |-> IF dialog.hasConnection = "yes" THEN dialog.name ELSE Absent,
     contactInfo |-> IF dialog.hasConnection = "yes" THEN dialog.contactInfo ELSE Absent,
     email |-> IF dialog.hasConnection = "yes" THEN dialog.email ELSE Absent]

\* handleConfirmSave: newApplication.  It has no interviews and no reminders.
NewApplication(id, job, dialog, generated, includeCoverLetter, at) ==
    LET finalConnectionInfo == FinalConnectionInfo(dialog)
    IN [id |-> id,
        jobDescriptionId |-> job.id,
        company |-> job.company,
        role |-> job.role,
        location |-> job.location,
        salary |-> job.salary,
        jobType |-> job.jobType,
        industry |-> job.industry,
        applicationDate |-> toISOString(at),
        resumeVersion |-> "Generated v1",
        status |-> "draft",
        notes |-> "",
        connections |-> IF finalConnectionInfo.hasConnection
                           /\ Truthy(finalConnectionInfo.name)
                        THEN <<finalConnectionInfo.name>> ELSE <<>>,
        connectionInfo |-> finalConnectionInfo,
        applicationLink |-> OrElse(dialog.applicationLink, Absent),
        savedResume |-> generated.resume,
        savedCoverLetter |-> IF includeCoverLetter THEN generated.coverLetter
                             ELSE Absent,
        createdAt |-> toISOString(at),
        updatedAt |-> toISOString(at)]

\* handleConfirmSave with what the dialog holds, the id drawn and whether the
\* insert of syncApplication arrives.  syncApplication reports its own
\* failure and never throws, so the dialog is closed and 'Saved to tracker' is
\* shown either way.  navigate('/tracker') takes the page off the screen: its
\* state is discarded, while a call of generateApplication still in flight
\* stays so.
ConfirmSave(dialog, id, arrives) ==
    /\ GeneratePageShown
    /\ showSaveDialog
    /\ IF selectedJob = NoJob \/ generatedContent = NoData
       THEN UNCHANGED <<applications, showSaveDialog, toast, location, selectedJobId,
                        isGenerating, generatedContent, settings, applicationTable>>
       ELSE LET newApplication ==
                   NewApplication(id, selectedJob, dialog, generatedContent,
                                  settings.includeCoverLetter, clock)
            IN /\ applications' = Append(applications, newApplication)
               /\ applicationTable' =
                     IF InsertError(newApplication, arrives) = Absent
                     THEN applicationTable \cup {ApplicationRow(newApplication, clock)}
                     ELSE applicationTable
               /\ showSaveDialog' = FALSE
               /\ toast' = "Saved to tracker"
               /\ location' = "/tracker"
               /\ selectedJobId' = ""
               /\ isGenerating' = FALSE
               /\ generatedContent' = NoData
               /\ settings' = InitialSettings
    /\ UNCHANGED <<generating, exported, jobDescriptions, jobsVars, masterResume,
                   saveVars, exportVars, endpointVars, dashboardVars, jobTable,
                   restVars>>

HandleConfirmSave ==
    \E dialog \in SaveDialogs, id \in UUIDs, arrives \in BOOLEAN :
       /\ \A a \in Range(applications) : a.id # id
       /\ \A r \in applicationTable : r.id # id
       /\ ConfirmSave(dialog, id, arrives)

(***************************************************************************)
(* The JobDescriptions page                                                *)
(***************************************************************************)
MinPastedLength == 50

\* The texts a user pastes: nothing, blanks only, too short, long enough.
PastedTexts ==
    {EmptyText, [len |-> 0, pad |-> 1], [len |-> MinPastedLength - 1, pad |-> 0],
     [len |-> MinPastedLength, pad |-> 0]}

\* !newJob.rawText
EmptyString(text) == text.len + text.pad = 0

\* A value the parsed JSON may hold where a list is expected.
NoList == [kind |-> "absent", items |-> <<>>]
ListOf(items) == [kind |-> "array", items |-> items]
StringOf(items) == [kind |-> "string", items |-> items]

ListValues == {NoList, ListOf(<<>>), ListOf(<<"Go", "SQL">>), StringOf(<<"Go, SQL">>)}

\* json.data of a successful answer: whatever JSON the collaborator wrote.
ParsedJobs ==
    {NoData}
    \cup {[company |-> c, role |-> "Engineer", location |-> "", salary |-> "",
           jobType |-> "contract", industry |-> "", requiredSkills |-> s,
           keywords |-> k] :
             c \in {"", "Initech"}, s \in ListValues, k \in ListValues}

\* What getSession, fetch and res.json() give back.
FetchOutcomes ==
    {[session |-> s, kind |-> k, ok |-> FALSE, success |-> FALSE, error |-> Absent,
      data |-> NoData] :
        s \in BOOLEAN, k \in {"rejected", "notJson"}}
    \cup {[session |-> TRUE, kind |-> "json", ok |-> o, success |-> FALSE, error |-> e,
           data |-> NoData] :
             o \in BOOLEAN, e \in {Absent, "Failed to process request"}}
    \cup {[session |-> TRUE, kind |-> "json", ok |-> TRUE, success |-> TRUE,
           error |-> Absent, data |-> d] : d \in ParsedJobs}

\* parsed.requiredSkills?.join(", ") || ""
JoinedOrEmpty(v) ==
    IF v.kind = "absent" THEN Returned(<<>>)
    ELSE IF v.kind = "array" THEN Returned(Join(v.items, ", "))
    ELSE Threw("join is not a function")

\* the Parse with AI button: disabled={isParsing || !newJob.rawText}
ParseDisabled == isParsing \/ EmptyString(newJob.rawText)

\* onChange of the description, company and role fields
SetNewJob(field, value) ==
    /\ location = "/jobs"
    /\ newJob' = [newJob EXCEPT ![field] = value]
    /\ UNCHANGED <<skillsInput, keywordsInput, isParsing, parsing, location,
                   jobDescriptions, applications, generateVars, masterResume, toast,
                   saveVars, exportVars, endpointVars>>
    /\ UNCHANGED trackerVars

\* onChange of the skills field
SetSkillsInput(value) ==
    /\ location = "/jobs"
    /\ skillsInput' = value
    /\ UNCHANGED <<newJob, keywordsInput, isParsing, parsing, location,
                   jobDescriptions, applications, generateVars, masterResume, toast,
                   saveVars, exportVars, endpointVars>>
    /\ UNCHANGED trackerVars

\* handleParseWithAI up to its awaits
HandleParseWithAI ==
    /\ location = "/jobs"
    /\ ~ParseDisabled
    /\ IF EmptyString(newJob.rawText) \/ newJob.rawText.len < MinPastedLength
       THEN /\ toast' = "Not enough text"
            /\ UNCHANGED <<isParsing, parsing>>
       ELSE /\ isParsing' = TRUE
            /\ parsing' = Append(parsing, [jobText |-> newJob.rawText])
            /\ UNCHANGED toast
    /\ UNCHANGED <<newJob, skillsInput, keywordsInput, location, jobDescriptions,
                   applications, generateVars, masterResume, saveVars, exportVars,
                   endpointVars>>
    /\ UNCHANGED trackerVars

\* (prev) => ({ ...prev, company: parsed.company || prev.company, ... })
ApplyParsed(prev, parsed) ==
    [prev EXCEPT !.company = OrElse(parsed.company, prev.company),
                 !.role = OrElse(parsed.role, prev.role),
                 !.location = OrElse(parsed.location, prev.location),
                 !.salary = OrElse(parsed.salary, prev.salary),
                 !.jobType = OrElse(parsed.jobType, prev.jobType),
                 !.industry = OrElse(parsed.industry, prev.industry)]

\* The try block of handleParseWithAI from its first await on: the form it
\* leaves and whether it ended by throwing.
ParseOutcome(outcome) ==
    LET form == [newJob |-> newJob, skillsInput |-> skillsInput,
                 keywordsInput |-> keywordsInput]
        Fails(f, message) == [threw |-> TRUE, message |-> message, form |-> f] IN
    IF ~outcome.session
    THEN Fails(form, "You must be logged in to parse a job description.")
    ELSE IF outcome.kind = "rejected" THEN Fails(form, "Failed to fetch")
    ELSE IF outcome.kind = "notJson" THEN Fails(form, "Unexpected token")
    ELSE IF ~outcome.ok \/ ~outcome.success
    THEN Fails(form, OrElse(outcome.error, "AI parsing failed"))
    ELSE IF outcome.data = NoData
    THEN Fails(form, "Cannot read properties of null")
    ELSE LET form1 == [form EXCEPT !.newJob = ApplyParsed(newJob, outcome.data)]
             skills == JoinedOrEmpty(outcome.data.requiredSkills)
             form2 == [form1 EXCEPT !.skillsInput = skills.data]
             keywords == JoinedOrEmpty(outcome.data.keywords) IN
         IF skills.threw THEN Fails(form1, skills.message)
         ELSE IF keywords.threw THEN Fails(form2, keywords.message)
         ELSE [threw |-> FALSE, message |-> "",
               form |-> [form2 EXCEPT !.keywordsInput = keywords.data]]

\* handleParseWithAI from its awaits on: try, catch and finally
ParseSettles(outcome) ==
    /\ parsing # <<>>
    /\ parsing' = Tail(parsing)
    /\ LET result == ParseOutcome(outcome) IN
       /\ newJob' = result.form.newJob
       /\ skillsInput' = result.form.skillsInput
       /\ keywordsInput' = result.form.keywordsInput
       /\ toast' = IF result.threw THEN "Parsing failed" ELSE "Parsed successfully"
    /\ isParsing' = FALSE
    /\ UNCHANGED <<location, jobDescriptions, applications, generateVars, masterResume,
                   saveVars, exportVars, endpointVars>>
    /\ UNCHANGED trackerVars

(***************************************************************************)
(* The pages as a system                                                   *)
(***************************************************************************)
InitUI ==
    /\ DashboardIdle
    /\ RestIdle
    /\ EndpointIdle
    /\ ExportIdle
    /\ SaveIdle
    /\ location \in {"/generate", "/jobs"}
    /\ masterResume \in {defaultResume, PlainResume}
    /\ jobDescriptions \in {<<>>, <<StoredJob(1)>>, <<StoredJob(1), StoredJob(2)>>}
    /\ applications = <<>>
    /\ hasUnsavedChanges = FALSE
    /\ GeneratePageInitial
    /\ JobsPageInitial
    /\ toast = NoToast
    /\ jobTable = {JobRow(jobDescriptions[k], jobDescriptions[k].id, 0) :
                      k \in 1..Len(jobDescriptions)}
    /\ applicationTable = {}

NextUI ==
    \/ \E k \in 1..Len(jobDescriptions) : SetSelectedJobId(jobDescriptions[k].id)
    \/ \E v \in BOOLEAN : SetSettings(v)
    \/ HandleGenerate
    \/ \E i \in 1..Len(generating), outcome \in InvokeOutcomes :
          GenerateSettles(i, outcome)
    \/ \E format \in {"pdf", "docx", "txt"}, type \in {"resume", "coverLetter", "both"},
          completes \in BOOLEAN : HandleExport(format, type, completes)
    \/ \E open \in BOOLEAN : SetShowSaveDialog(open)
    \/ HandleConfirmSave
    \/ \E text \in PastedTexts : SetNewJob("rawText", text)
    \/ \E field \in {"company"}, value \in {"", "Initech"} :
          SetNewJob(field, value)
    \/ \E value \in {<<>>, <<"Go">>} : SetSkillsInput(value)
    \/ HandleParseWithAI
    \/ \E outcome \in FetchOutcomes : ParseSettles(outcome)

SpecUI == InitUI /\ [][NextUI]_vars


GenerateFailed == Len(generating') < Len(generating) /\ toast' = "Generation failed"

ParseFailed == Len(parsing') < Len(parsing) /\ toast' = "Parsing failed"

\* C7: a step of handleGenerate or handleParseWithAI that ends with the
\* failure message leaves the generated content, the selected job, the
\* settings, the pasted text and form fields and the stores as they were, and
\* ends with the busy flag false.
C7_FailedCallChangesNothing ==
    [][/\ GenerateFailed =>
             /\ UNCHANGED <<generatedContent, selectedJobId, settings, masterResume,
                            jobDescriptions, applications>>
             /\ ~isGenerating'
       /\ ParseFailed =>
             /\ UNCHANGED <<newJob, skillsInput, keywordsInput, masterResume,
                            jobDescriptions, applications>>
             /\ ~isParsing']_vars

\* A step of handleConfirmSave that adds an application.
ApplicationSaved == HandleConfirmSave /\ Len(applications') = Len(applications) + 1

\* C27: the application that handleConfirmSave creates pairs savedResume and
\* savedCoverLetter with the job they were generated for: its company, role
\* and jobDescriptionId are those of the job that was selected when the
\* content was generated, also when the user changes the selected job during
\* or after the generation.
C27_SavedWithTheJobGeneratedFor ==
    [][ApplicationSaved =>
          LET newApplication == applications'[Len(applications')]
          IN /\ newApplication.savedResume = generatedContent.resume
             /\ newApplication.jobDescriptionId = generatedFor.id
             /\ newApplication.company = generatedFor.company
             /\ newApplication.role = generatedFor.role]_vars

(***************************************************************************)
(* Auto-save of the master resume (DataSyncContext).  The user is logged   *)
(* in and the initial load has completed: isInitialLoadRef.current is      *)
(* false.  Time is counted in ticks of 500 ms.                             *)
(***************************************************************************)
QuietPeriod == 2     \* setTimeout(..., 1000)

MaxClock == 7        \* the ticks of a run of the model
MaxEdits == 3        \* the edits of a run of the model

\* The names a user types into the header of the resume.
TypedNames == {"Ada", "Ada L."}

\* The auto-save effect after a render in which one of its dependencies
\* changed: the cleanup of the previous run has cleared the timer, and the
\* body sets a new one unless there is nothing to save.
AutoSaveEffect(resume, unsaved) ==
    IF ~unsaved THEN NoTimer
    ELSE [armed |-> TRUE, due |-> now + QuietPeriod, snapshot |-> resume]

\* markAsSaved: the effect runs again only if hasUnsavedChanges changed
AfterMarkAsSaved ==
    IF hasUnsavedChanges THEN AutoSaveEffect(masterResume, FALSE) ELSE saveTimeout

\* updateMasterResume({ header: { ...header, name } }) and the render after it
UpdateMasterResume(name) ==
    /\ Len(edits) < MaxEdits
    /\ masterResume' = [masterResume EXCEPT !.header.name = name]
    /\ hasUnsavedChanges' = TRUE
    /\ saveTimeout' = AutoSaveEffect(masterResume', TRUE)
    /\ edits' = Append(edits, [at |-> now, resume |-> masterResume'])
    /\ UNCHANGED <<saving, persisted, now, writes, toast, pageVars, exportVars,
                   endpointVars>>
    /\ UNCHANGED trackerVars

\* The timer fires: saveMasterResume up to the await of the update request
SaveTimerFires ==
    /\ saveTimeout.armed
    /\ saveTimeout.due <= now
    /\ saveTimeout' = NoTimer
    /\ saving' = Append(saving, [resume |-> saveTimeout.snapshot, applied |-> FALSE])
    /\ writes' = Append(writes, [at |-> now, resume |-> saveTimeout.snapshot])
    /\ UNCHANGED <<masterResume, hasUnsavedChanges, persisted, now, edits, toast,
                   pageVars, exportVars, endpointVars>>
    /\ UNCHANGED trackerVars

\* The database executes the update of request i.
UpdateApplied(i) ==
    /\ i \in 1..Len(saving)
    /\ ~saving[i].applied
    /\ persisted' = saving[i].resume
    /\ saving' = [saving EXCEPT ![i].applied = TRUE]
    /\ UNCHANGED <<masterResume, hasUnsavedChanges, saveTimeout, now, edits, writes,
                   toast, pageVars, exportVars, endpointVars>>
    /\ UNCHANGED trackerVars

\* saveMasterResume from the await on.  A request that was executed answers
\* without error and markAsSaved follows; one that was not answers with an
\* error, which is caught and shown.
SaveSettles(i) ==
    /\ i \in 1..Len(saving)
    /\ saving' = RemoveAt(saving, i)
    /\ IF saving[i].applied
       THEN /\ hasUnsavedChanges' = FALSE
            /\ saveTimeout' = AfterMarkAsSaved
            /\ UNCHANGED toast
       ELSE /\ toast' = "Failed to save resume"
            /\ UNCHANGED <<hasUnsavedChanges, saveTimeout>>
    /\ UNCHANGED <<masterResume, persisted, now, edits, writes, pageVars, exportVars,
                   endpointVars>>
    /\ UNCHANGED trackerVars

\* handleSave of the Save button, disabled={!hasUnsavedChanges}
HandleSave ==
    /\ hasUnsavedChanges
    /\ hasUnsavedChanges' = FALSE
    /\ saveTimeout' = AfterMarkAsSaved
    /\ toast' = "Resume saved"
    /\ UNCHANGED <<masterResume, saving, persisted, now, edits, writes, pageVars,
                   exportVars, endpointVars>>
    /\ UNCHANGED trackerVars

\* Half a second passes; a timer that is due fires first.
Tick ==
    /\ now < MaxClock
    /\ ~(saveTimeout.armed /\ saveTimeout.due <= now)
    /\ now' = now + 1
    /\ UNCHANGED <<masterResume, hasUnsavedChanges, saveTimeout, saving, persisted,
                   edits, writes, toast, pageVars, exportVars, endpointVars>>
    /\ UNCHANGED trackerVars

\* After loadData: the store holds the stored resume and nothing is unsaved.
InitSave ==
    /\ TrackerIdle
    /\ EndpointIdle
    /\ ExportIdle
    /\ location = "/resume"
    /\ masterResume = PlainResume
    /\ jobDescriptions = <<>>
    /\ applications = <<>>
    /\ hasUnsavedChanges = FALSE
    /\ GeneratePageInitial
    /\ JobsPageInitial
    /\ toast = NoToast
    /\ saveTimeout = NoTimer
    /\ saving = <<>>
    /\ persisted = PlainResume
    /\ now = 0
    /\ edits = <<>>
    /\ writes = <<>>

NextSave ==
    \/ \E name \in TypedNames : UpdateMasterResume(name)
    \/ SaveTimerFires
    \/ \E i \in 1..Len(saving) : UpdateApplied(i)
    \/ \E i \in 1..Len(saving) : SaveSettles(i)
    \/ HandleSave
    \/ Tick

SpecSave == InitSave /\ [][NextSave]_vars

(***************************************************************************)
(* Properties of the auto-save                                             *)
(***************************************************************************)
\* Edit i is the last of a run of edits: none follows it within the quiet
\* period.
LastOfRun(i) == i = Len(edits) \/ edits[i + 1].at - edits[i].at >= QuietPeriod

\* The first edit of the run that edit i belongs to.
RECURSIVE RunStart(_)
RunStart(i) ==
    IF i = 1 \/ edits[i].at - edits[i - 1].at >= QuietPeriod THEN i
    ELSE RunStart(i - 1)

\* The quiet period after edit i is over, and no edit fell on its last instant.
QuietPassed(i) ==
    IF i = Len(edits) THEN now > edits[i].at + QuietPeriod
    ELSE edits[i + 1].at > edits[i].at + QuietPeriod

\* The update requests issued after the first edit of the run that ends with
\* edit i, up to the end of the quiet period after edit i.
WritesOfRun(i) ==
    {k \in 1..Len(writes) : /\ writes[k].at > edits[RunStart(i)].at
                            /\ writes[k].at <= edits[i].at + QuietPeriod}

\* C4: for every run of edits in which each edit follows the previous one by
\* less than the quiet period, exactly one update request is issued, at the end
\* of the quiet period after the last edit, and it carries the resume as that
\* edit left it.
C4_OneWritePerRunOfEdits ==
    \A i \in 1..Len(edits) :
        (LastOfRun(i) /\ QuietPassed(i)) =>
            /\ Cardinality(WritesOfRun(i)) = 1
            /\ \A k \in WritesOfRun(i) :
                  /\ writes[k].at = edits[i].at + QuietPeriod
                  /\ writes[k].resume = edits[i].resume


\* C23: once the initial load has completed, whenever hasUnsavedChanges is
\* false and no save request is in flight, the resume in the database equals
\* the resume of the store: the page never shows a state as saved that was
\* not written.
C23_SavedMeansPersisted ==
    (~hasUnsavedChanges /\ saving = <<>>) => persisted = masterResume

\* C24: if the user edits the resume and then stops, and no persistence call
\* fails, the persisted resume eventually equals the resume of the store.
\* Stated on the states in which nothing is pending: no call has failed, the
\* Save button has not been pressed, no timer is armed and no request is in
\* flight.  From such a state only a further edit leads to a write, so the
\* resume of the store must have been written already.
C24_EveryEditIsWritten ==
    (toast = NoToast /\ ~saveTimeout.armed /\ saving = <<>>) =>
        persisted = masterResume

(***************************************************************************)
(* Number arithmetic.  A count is an integer; a quotient or a product is   *)
(* an IEEE-754 double: 53 significant bits, round to nearest, ties to even *)
(***************************************************************************)
\* A positive double is kept as its 53-bit significand, in three limbs of 18
\* bits (hi holds 17), and its exponent:
\*     value = (hi * 2^36 + mid * 2^18 + lo) * 2^(exp - 52),  2^16 <= hi < 2^17
Limb == 2^18

\* The significand after a rounding step added 0 or 1 to its last limb: the
\* carry runs up, and a significand that reached 2^53 becomes 2^52.
Normalise(hi, mid, lo, exp) ==
    LET mid1 == mid + (lo \div Limb)
        hi1 == hi + (mid1 \div Limb)
    IN IF hi1 = 2^17
       THEN [hi |-> 2^16, mid |-> 0, lo |-> 0, exp |-> exp + 1]
       ELSE [hi |-> hi1, mid |-> mid1 % Limb, lo |-> lo % Limb, exp |-> exp]

\* Round to nearest, ties to even: 1 when the bits cut off are more than half
\* of the last bit kept, or exactly half with the last bit kept odd.
RoundUp(lsb, guard, sticky) == IF guard = 1 /\ (sticky \/ lsb = 1) THEN 1 ELSE 0

\* c / n for integers 0 < c <= n < 2^13: long division, 18 bits at a time
DoubleDivide(c, n) ==
    LET k == CHOOSE j \in 0..13 : c * (2^j) >= n /\ (j = 0 \/ c * (2^(j - 1)) < n)
        r0 == (c * (2^k)) - n
        d1 == (r0 * Limb) \div n
        r1 == (r0 * Limb) % n
        d2 == (r1 * Limb) \div n
        r2 == (r1 * Limb) % n
        d3 == (r2 * Limb) \div n
        r3 == (r2 * Limb) % n
        \* 1.d1 d2 d3 holds 54 bits after the point: 52 are kept
        up == RoundUp((d3 \div 4) % 2, (d3 \div 2) % 2, (d3 % 2) = 1 \/ r3 # 0)
    IN Normalise(2^16 + (d1 \div 4),
                 ((d1 % 4) * (2^16)) + (d2 \div 4),
                 ((d2 % 4) * (2^16)) + (d3 \div 4) + up,
                 0 - k)

\* d * 100: the exact product has 59 or 60 bits, 53 are kept
DoubleTimes100(d) ==
    LET p0 == d.lo * 100
        p1 == (d.mid * 100) + (p0 \div Limb)
        p2 == (d.hi * 100) + (p1 \div Limb)
        q0 == p0 % Limb
        q1 == p1 % Limb
        drop == IF p2 >= 2^23 THEN 7 ELSE 6
        up == RoundUp((q0 \div (2^drop)) % 2, (q0 \div (2^(drop - 1))) % 2,
                      (q0 % (2^(drop - 1))) # 0)
    IN Normalise(p2 \div (2^drop),
                 (q1 \div (2^drop)) + ((p2 % (2^drop)) * (2^(18 - drop))),
                 (q0 \div (2^drop)) + ((q1 % (2^drop)) * (2^(18 - drop))) + up,
                 d.exp + drop)

\* Math.round(d) for d < 2^16: the nearest integer, a tie going up
MathRound(d) ==
    IF d.exp < -1 THEN 0
    ELSE IF d.exp = -1 THEN 1
    ELSE (d.hi \div (2^(16 - d.exp))) + ((d.hi \div (2^(15 - d.exp))) % 2)

\* A faulty variant: the quotient is cut off, not rounded
Percent_Truncated(count, total) == (100 * count) \div total

\* Math.round((count / total) * 100)
Percent(count, total) ==
    IF count = 0 THEN 0 ELSE MathRound(DoubleTimes100(DoubleDivide(count, total)))

(***************************************************************************)
(* The Dashboard: ApplicationStats and the upcoming list                   *)
(***************************************************************************)
IsResponded(app) == app.status \in {"interview", "offer", "rejected"}
IsPositive(app) == app.status \in {"interview", "offer"}
IsInterview(app) == app.status = "interview"
IsOffer(app) == app.status = "offer"

\* ApplicationStats: responseStats
ResponseStats(apps) ==
    LET total == Len(apps)
        responded == Len(SelectSeq(apps, IsResponded))
        positive == Len(SelectSeq(apps, IsPositive))
    IN [rendered |-> TRUE,
        responseRate  |-> IF total > 0 THEN Percent(responded, total) ELSE 0,
        positiveRate  |-> IF total > 0 THEN Percent(positive, total) ELSE 0,
        interviewRate |-> IF total > 0
                          THEN Percent(Len(SelectSeq(apps, IsInterview)), total) ELSE 0,
        offerRate     |-> IF total > 0
                          THEN Percent(Len(SelectSeq(apps, IsOffer)), total) ELSE 0]

\* ApplicationStats: weeklyData
WeeklyData(apps, current) ==
    [rendered |-> TRUE,
     weeks |->
       [k \in 1..4 |->
          LET i == 4 - k
              weekStart == current - (i * 7 + getDay(current)) * SlotsPerDay
              weekEnd == weekStart + 6 * SlotsPerDay
          IN [week |-> 4 - i,
              count |-> Cardinality({a \in 1..Len(apps) :
                           /\ parseDate(apps[a].applicationDate, current) >= weekStart
                           /\ parseDate(apps[a].applicationDate, current) <= weekEnd})]]]

\* Array.prototype.sort with (a, b) => a.date - b.date: ascending and stable
RECURSIVE SortByDate(_)
SortByDate(items) ==
    IF items = <<>> THEN <<>>
    ELSE LET sorted == SortByDate(SubSeq(items, 1, Len(items) - 1))
             last == items[Len(items)]
             n == Cardinality({j \in 1..Len(sorted) : sorted[j].date <= last.date})
         IN SubSeq(sorted, 1, n) \o <<last>> \o SubSeq(sorted, n + 1, Len(sorted))

\* applications.sort((a, b) => parseDate(b.createdAt) - parseDate(a.createdAt)):
\* in place, newest first, stable
RECURSIVE SortNewestFirst(_, _)
SortNewestFirst(apps, current) ==
    IF apps = <<>> THEN <<>>
    ELSE LET sorted == SortNewestFirst(SubSeq(apps, 1, Len(apps) - 1), current)
             last == apps[Len(apps)]
             n == Cardinality({j \in 1..Len(sorted) :
                     parseDate(sorted[j].createdAt, current)
                        >= parseDate(last.createdAt, current)})
         IN SubSeq(sorted, 1, n) \o <<last>> \o SubSeq(sorted, n + 1, Len(sorted))

\* A faulty variant: an interview is listed whether completed or not
ListedInterview_Completed(interview, current) ==
    LET interviewDate == parseDateTime(interview.date, interview.time, current)
    IN isToday(interviewDate, current) \/ isFuture(interviewDate, current)

\* The test that admits an interview to the upcoming list.
ListedInterview(interview, current) ==
    LET interviewDate == parseDateTime(interview.date, interview.time, current)
    IN ~interview.completed
       /\ (isToday(interviewDate, current) \/ isFuture(interviewDate, current))

\* The test that admits a reminder to the upcoming list.
ListedReminder(reminder, current) ==
    LET reminderDate == parseDate(reminder.date, current)
    IN ~reminder.completed
       /\ (\/ isToday(reminderDate, current)
           \/ isFuture(reminderDate, current)
           \/ isPast(reminderDate, current))

\* The items of one application: its interviews, then its reminders.
ItemsOf(app, current) ==
    LET interviews == SelectSeq(app.interviews, LAMBDA x : ListedInterview(x, current))
        reminders == SelectSeq(app.reminders, LAMBDA x : ListedReminder(x, current))
    IN [j \in 1..Len(interviews) |->
           [type |-> "interview", id |-> interviews[j].id, app |-> app.id,
            date |-> parseDateTime(interviews[j].date, interviews[j].time, current)]]
       \o [j \in 1..Len(reminders) |->
           [type |-> "reminder", id |-> reminders[j].id, app |-> app.id,
            date |-> parseDate(reminders[j].date, current)]]

\* The badge next to an item of the list.
ItemLabel(item, current) ==
    LET isOverdue == isPast(item.date, current) /\ ~isToday(item.date, current)
        isDueToday == isToday(item.date, current)
    IN IF isOverdue THEN "Overdue" ELSE IF isDueToday THEN "Today" ELSE "date"

\* Dashboard: upcomingItems, as shown
UpcomingItems(apps, current) ==
    LET all == SortByDate(Flatten([a \in 1..Len(apps) |-> ItemsOf(apps[a], current)]))
        shown == SubSeq(all, 1, IF Len(all) < 5 THEN Len(all) ELSE 5)
    IN [rendered |-> TRUE,
        items |-> [j \in 1..Len(shown) |->
                     [type |-> shown[j].type, id |-> shown[j].id, app |-> shown[j].app,
                      date |-> shown[j].date,
                      label |-> ItemLabel(shown[j], current)]]]

\* One rendering of the Dashboard at the time the clock shows.
RenderDashboard ==
    /\ location = "/"
    /\ responseStats = NotRendered
    /\ applications' = SortNewestFirst(applications, clock)
    /\ responseStats' = ResponseStats(applications')
    /\ weeklyData' = WeeklyData(applications', clock)
    /\ upcomingItems' = UpcomingItems(applications', clock)
    /\ UNCHANGED <<clock, location, masterResume, jobDescriptions,
                   generateVars, jobsVars, toast, saveVars, exportVars, endpointVars,
                   tableVars, restVars>>

(***************************************************************************)
(* The collections the Dashboard is rendered for                           *)
(***************************************************************************)
MaxApps == 40        \* applications in the largest collection
SmallApps == 10      \* every collection size up to this one is covered
MaxInterviews == 2   \* interviews of one application
MaxReminders == 2    \* reminders of one application

\* The days the clock may show: day 28 is a Sunday, day 34 the Saturday after.
ClockDays == 28..34
Today == 4 * 7 + 3         \* a Wednesday
Midday == SlotsPerDay \div 2

NoConnection == [hasConnection |-> FALSE, name |-> Absent, contactInfo |-> Absent,
                 email |-> Absent]

\* An application of the tracker: saved by handleConfirmSave, its interviews
\* and reminders added on the Tracker page.
MkApplication(id, status, date) ==
    [id |-> id, jobDescriptionId |-> "job-1", company |-> "Initech", role |-> "Engineer",
     location |-> "Austin", salary |-> Absent, jobType |-> "full-time",
     industry |-> "Software", applicationDate |-> date, resumeVersion |-> "Generated v1",
     status |-> status, notes |-> "", connections |-> <<>>, connectionInfo |-> NoConnection,
     applicationLink |-> Absent, savedResume |-> "generated resume",
     savedCoverLetter |-> Absent, interviews |-> <<>>, reminders |-> <<>>,
     createdAt |-> date, updatedAt |-> date]

\* n applications: i in interview, o with an offer, r rejected, the rest drafts.
StatusMix(n, i, o, r) ==
    [j \in 1..n |->
        MkApplication(j, IF j <= i THEN "interview"
                         ELSE IF j <= i + o THEN "offer"
                         ELSE IF j <= i + o + r THEN "rejected"
                         ELSE "draft",
                      DateOnly(Today))]

StatSizes == (0..SmallApps) \cup {MaxApps}

\* The date of an application: a day alone, or the instant it was saved.
WeeklyDates ==
    {DateOnly(d) : d \in 0..41} \cup {Instant(d, 3) : d \in 0..41}

InterviewChoices ==
    {[date |-> DateOnly(d[1]), time |-> d[2], completed |-> c] :
        d \in {<<Today - 1, 3>>, <<Today, 1>>, <<Today + 1, 1>>}, c \in BOOLEAN}

ReminderChoices ==
    {[date |-> DateOnly(d), completed |-> c] :
        d \in {Today - 1, Today, Today + 1}, c \in BOOLEAN}

WithIds(prefix, items) ==
    [j \in 1..Len(items) |->
        [id |-> prefix \o ToString(j), type |-> "custom", date |-> items[j].date,
         time |-> IF "time" \in DOMAIN items[j] THEN items[j].time ELSE 0,
         completed |-> items[j].completed]]

\* A second application, four of whose items are due.
BusyApplication ==
    [MkApplication(2, "interview", DateOnly(Today - 3)) EXCEPT
       !.interviews = WithIds("bi", <<[date |-> DateOnly(Today + 2), time |-> 1,
                                      completed |-> FALSE]>>),
       !.reminders = WithIds("br", <<[date |-> DateOnly(Today - 2), completed |-> FALSE],
                                     [date |-> DateOnly(Today + 2), completed |-> FALSE],
                                     [date |-> DateOnly(Today + 3), completed |-> FALSE]>>)]

InitDashboard ==
    /\ EndpointIdle
    /\ ExportIdle
    /\ SaveIdle
    /\ location = "/"
    /\ masterResume = defaultResume
    /\ jobDescriptions = <<>>
    /\ hasUnsavedChanges = FALSE
    /\ GeneratePageInitial
    /\ JobsPageInitial
    /\ toast = NoToast
    /\ responseStats = NotRendered
    /\ weeklyData = NotRendered
    /\ upcomingItems = NotRendered
    /\ TablesEmpty
    /\ RestIdle
    /\ \/ /\ clock = Today * SlotsPerDay + Midday
          /\ \E n \in StatSizes : \E i \in 0..n : \E o \in 0..(n - i) :
             \E r \in 0..(n - i - o) :
                applications = StatusMix(n, i, o, r)
       \/ /\ clock \in {d * SlotsPerDay + t : d \in ClockDays, t \in {0, Midday}}
          /\ \/ applications = <<>>
             \/ \E date \in WeeklyDates :
                   applications = <<MkApplication(1, "applied", date)>>
       \/ /\ clock = Today * SlotsPerDay + Midday
          /\ \E is \in SeqsUpTo(InterviewChoices, MaxInterviews) :
             \E rs \in SeqsUpTo(ReminderChoices, MaxReminders) :
                applications =
                   <<[MkApplication(1, "applied", DateOnly(Today - 1)) EXCEPT
                        !.interviews = WithIds("i", is),
                        !.reminders = WithIds("r", rs)],
                     BusyApplication>>

NextDashboard == RenderDashboard

SpecDashboard == InitDashboard /\ [][NextDashboard]_vars

(***************************************************************************)
(* Properties of the Dashboard                                             *)
(***************************************************************************)
\* round(num / den): the nearest integer, a tie going up
RoundedQuotient(num, den) == (2 * num + den) \div (2 * den)

CountOf(statuses) ==
    Cardinality({a \in 1..Len(applications) : applications[a].status \in statuses})

\* C16: for a collection of n applications responseRate, positiveRate,
\* interviewRate and offerRate are round(100 * count / n) for the counts of
\* {interview, offer, rejected}, {interview, offer}, {interview} and {offer};
\* all four are 0 when n = 0; 10 applications with 3 interview, 2 offer,
\* 1 rejected and 4 draft give 60, 50, 30 and 20.
C16_RatesAreRoundedPercentages ==
    responseStats # NotRendered =>
        LET n == Len(applications)
            Rate(statuses) == IF n = 0 THEN 0
                              ELSE RoundedQuotient(100 * CountOf(statuses), n)
        IN /\ responseStats.responseRate = Rate({"interview", "offer", "rejected"})
           /\ responseStats.positiveRate = Rate({"interview", "offer"})
           /\ responseStats.interviewRate = Rate({"interview"})
           /\ responseStats.offerRate = Rate({"offer"})
           /\ (/\ n = 10
               /\ CountOf({"interview"}) = 3
               /\ CountOf({"offer"}) = 2
               /\ CountOf({"rejected"}) = 1
               /\ CountOf({"draft"}) = 4)
                 => /\ responseStats.responseRate = 60
                    /\ responseStats.positiveRate = 50
                    /\ responseStats.interviewRate = 30
                    /\ responseStats.offerRate = 20

\* The days of the k-th of four consecutive 7-day windows, the last of which
\* ends at the current date.
WindowDays(k) ==
    (DayOf(clock) - 7 * (4 - k) - 6) .. (DayOf(clock) - 7 * (4 - k))

\* C17: the weekly activity is exactly 4 buckets, consecutive 7-day windows
\* ending at the current date; an application whose date lies in that 28-day
\* span is counted in exactly one bucket, the one whose window contains its
\* date, and an application outside the span is counted in none.
C17_WeeklyBucketsCoverLast28Days ==
    weeklyData # NotRendered =>
        /\ Len(weeklyData.weeks) = 4
        /\ \A k \in 1..4 :
              weeklyData.weeks[k].count =
                 Cardinality({a \in 1..Len(applications) :
                    DayOf(parseDate(applications[a].applicationDate, clock))
                       \in WindowDays(k)})

\* The interviews and the reminders of all applications, each with its date.
AllItems ==
    UNION {
       {[type |-> "interview", id |-> app.interviews[j].id,
         completed |-> app.interviews[j].completed,
         date |-> parseDateTime(app.interviews[j].date, app.interviews[j].time, clock)] :
            j \in 1..Len(app.interviews)}
       \cup
       {[type |-> "reminder", id |-> app.reminders[j].id,
         completed |-> app.reminders[j].completed,
         date |-> parseDate(app.reminders[j].date, clock)] :
            j \in 1..Len(app.reminders)} : app \in Range(applications)}

Shown == {[type |-> it.type, id |-> it.id, date |-> it.date] :
             it \in Range(upcomingItems.items)}

Pending(items) == {[type |-> it.type, id |-> it.id, date |-> it.date] :
                      it \in {x \in items : ~x.completed}}

SortedByDate(items) ==
    \A i, j \in 1..Len(items) : i < j => items[i].date <= items[j].date

\* Overdue iff the date is strictly in the past and not today; never both
\* overdue and due today.
LabelsRight ==
    \A it \in Range(upcomingItems.items) :
       /\ (it.label = "Overdue") <=> (it.date < clock /\ DayOf(it.date) # DayOf(clock))
       /\ (it.label = "Today") <=> (DayOf(it.date) = DayOf(clock))

\* C18 as stated: the upcoming list is the union of every interview and every
\* reminder that is not completed, whatever its date, sorted by date
\* ascending; a completed item never appears; an item is shown as overdue
\* iff its date is strictly in the past and not today.
C18_UpcomingIsAllPending ==
    upcomingItems # NotRendered =>
        /\ Shown = Pending(AllItems)
        /\ Len(upcomingItems.items) = Cardinality(Pending(AllItems))
        /\ SortedByDate(upcomingItems.items)
        /\ LabelsRight

\* The items the list is drawn from: every reminder that is not completed,
\* and every interview that is not completed and is today or in the future.
Listable ==
    Pending({it \in AllItems :
                it.type = "interview" => (DayOf(it.date) = DayOf(clock) \/ it.date > clock)})

\* C18 as amended: the upcoming list is the first five, by date ascending, of
\* every reminder with completed = false (past, today or future) and every
\* interview with completed = false whose date is today or in the future; a
\* completed item never appears; an item is shown as overdue iff its date is
\* strictly in the past and not today, never as both overdue and due today.
C18_UpcomingIsFirstFiveListed ==
    upcomingItems # NotRendered =>
        /\ Shown \subseteq Listable
        /\ Cardinality(Shown) = Len(upcomingItems.items)
        /\ Len(upcomingItems.items)
             = (IF Cardinality(Listable) < 5 THEN Cardinality(Listable) ELSE 5)
        /\ \A it \in Listable \ Shown : \A sh \in Shown : sh.date <= it.date
        /\ SortedByDate(upcomingItems.items)
        /\ LabelsRight

\* A rendering with an overdue reminder, an item due today, a completed item
\* left out, a past interview left out and more than five items to list.
C18_Witness ==
    /\ upcomingItems # NotRendered
    /\ \E it \in Range(upcomingItems.items) : it.label = "Overdue"
    /\ \E it \in Range(upcomingItems.items) : it.label = "Today" /\ it.type = "interview"
    /\ \E it \in AllItems : it.completed
    /\ \E it \in Pending(AllItems) : it.type = "interview" /\ DayOf(it.date) < DayOf(clock)
    /\ Cardinality(Listable) > 5

(***************************************************************************)
(* Jobs and applications: the store's operations on job descriptions, the  *)
(* Delete button of the JobDescriptions page, and loadData                 *)
(***************************************************************************)
\* { ...j, ...job }
Spread(j, job) ==
    [f \in DOMAIN j \cup DOMAIN job |-> IF f \in DOMAIN job THEN job[f] ELSE j[f]]

\* useResumeStore: updateJobDescription
updateJobDescription(jobs, id, job) ==
    [k \in 1..Len(jobs) |-> IF jobs[k].id = id THEN Spread(jobs[k], job) ELSE jobs[k]]

\* useResumeStore: deleteJobDescription
deleteJobDescription(jobs, id) == SelectSeq(jobs, LAMBDA j : j.id # id)

\* The Delete button of a job card: deleteJobDescription(job.id), then
\* syncJobDescription(job, 'delete'), which reports a failure and throws it on.
HandleDeleteJob(k, arrives) ==
    /\ location = "/jobs"
    /\ LET job == jobDescriptions[k]
       IN /\ jobDescriptions' = deleteJobDescription(jobDescriptions, job.id)
          /\ IF arrives
             THEN /\ jobTable' = {r \in jobTable : r.id # job.id}
                  /\ applicationTable' = SetNullOnDelete(applicationTable, job.id, clock)
                  /\ UNCHANGED toast
             ELSE /\ toast' = "Failed to save job description"
                  /\ UNCHANGED tableVars
    /\ UNCHANGED <<location, applications, masterResume, generateVars, jobsVars,
                   saveVars, exportVars, endpointVars, dashboardVars, restVars>>

\* An edit of a job description: updateJobDescription(id, job), then
\* syncJobDescription of the edited job with 'update'.  The store and the
\* context offer both; no page under src/ calls them.
EditJob(k, job, arrives) ==
    /\ location = "/jobs"
    /\ LET id == jobDescriptions[k].id
       IN /\ jobDescriptions' = updateJobDescription(jobDescriptions, id, job)
          /\ IF arrives
             THEN /\ jobTable' = UpdateJobRows(jobTable, jobDescriptions'[k], clock)
                  /\ UNCHANGED toast
             ELSE /\ toast' = "Failed to save job description"
                  /\ UNCHANGED jobTable
    /\ UNCHANGED <<location, applications, applicationTable, masterResume, generateVars,
                   jobsVars, saveVars, exportVars, endpointVars, dashboardVars,
                   restVars>>

\* The sidebar: another page is shown and the state of the pages is discarded.
Navigate(path) ==
    /\ location # path
    /\ generating = <<>>
    /\ parsing = <<>>
    /\ location' = path
    /\ selectedJobId' = ""
    /\ isGenerating' = FALSE
    /\ generatedContent' = NoData
    /\ settings' = InitialSettings
    /\ showSaveDialog' = FALSE
    /\ exported' = NoExportCall
    /\ newJob' = EmptyJob
    /\ skillsInput' = <<>>
    /\ keywordsInput' = <<>>
    /\ isParsing' = FALSE
    /\ UNCHANGED <<generating, parsing, toast, masterResume, jobDescriptions,
                   applications, hasUnsavedChanges, saveTimeout, saving, persisted, now,
                   edits, writes, exportVars, endpointVars, trackerVars>>

\* The page is loaded again by the user who is logged in: the pages start
\* anew and loadData reads the three tables into the store.  It stops at the
\* first query that fails ('resume', 'jobs', 'applications'), keeping what it
\* has set, and reports it; failsAt = 'none' is the load that succeeds.
LoadData(failsAt, jobs, apps) ==
    /\ generating = <<>>
    /\ parsing = <<>>
    /\ saving = <<>>
    /\ ~saveTimeout.armed
    /\ jobs \in NewestFirst(jobTable)
    /\ apps \in NewestFirst(applicationTable)
    /\ IF failsAt = "resume"
       THEN UNCHANGED <<masterResume, hasUnsavedChanges>>
       ELSE /\ masterResume' = LoadedResume(persisted)
            /\ hasUnsavedChanges' = FALSE
    /\ IF failsAt \in {"resume", "jobs"}
       THEN UNCHANGED jobDescriptions
       ELSE jobDescriptions' = [k \in 1..Len(jobs) |-> LoadedJob(jobs[k])]
    /\ IF failsAt \in {"resume", "jobs", "applications"}
       THEN UNCHANGED applications
       ELSE applications' = [k \in 1..Len(apps) |-> LoadedApplication(apps[k])]
    /\ toast' = IF failsAt = "none" THEN toast ELSE "Failed to load your data"
    /\ selectedJobId' = ""
    /\ isGenerating' = FALSE
    /\ generatedContent' = NoData
    /\ settings' = InitialSettings
    /\ showSaveDialog' = FALSE
    /\ exported' = NoExportCall
    /\ newJob' = EmptyJob
    /\ skillsInput' = <<>>
    /\ keywordsInput' = <<>>
    /\ isParsing' = FALSE
    /\ UNCHANGED <<location, generating, parsing, saveTimeout, saving, persisted, now,
                   edits, writes, exportVars, endpointVars, trackerVars>>

(***************************************************************************)
(* The jobs and the applications the store and the tables start with       *)
(***************************************************************************)
\* A job description with every field filled in.
TrackedJob(n) ==
    [StoredJob(n) EXCEPT !.location = "Austin", !.salary = "100k",
                         !.jobType = "contract", !.industry = "Software"]

\* What an edit changes.
JobEdits == {[company |-> "Globex", location |-> "Remote"]}

\* The time of an earlier session, and the time of this one.
Earlier == (Today - 1) * SlotsPerDay
ThisSession == Today * SlotsPerDay + Midday

\* An application that an earlier session saved for the first job.
EarlierApplication ==
    NewApplication("uuid-1", TrackedJob(1),
                   [hasConnection |-> "yes", name |-> "Grace", contactInfo |-> "",
                    email |-> "grace@example.com", applicationLink |-> ""],
                   [resume |-> "resume A", coverLetter |-> "letter A",
                    whyRole |-> "role A", whyCompany |-> "company A"],
                   TRUE, Earlier)

InitTracker ==
    /\ EndpointIdle
    /\ ExportIdle
    /\ saveTimeout = NoTimer
    /\ saving = <<>>
    /\ persisted = PlainResume
    /\ now = 0
    /\ edits = <<>>
    /\ writes = <<>>
    /\ clock = ThisSession
    /\ DatesIdle
    /\ DialogIdle
    /\ SessionSteady
    /\ responseStats = NotRendered
    /\ weeklyData = NotRendered
    /\ upcomingItems = NotRendered
    /\ jobTable = {JobRow(TrackedJob(n), TrackedJob(n).id, Earlier + n) : n \in 1..2}
    /\ applicationTable \in {{}, {ApplicationRow(EarlierApplication, Earlier + 3)}}
    /\ masterResume = LoadedResume(persisted)
    /\ hasUnsavedChanges = FALSE
    /\ \E jobs \in NewestFirst(jobTable), apps \in NewestFirst(applicationTable) :
          /\ jobDescriptions = [k \in 1..Len(jobs) |-> LoadedJob(jobs[k])]
          /\ applications = [k \in 1..Len(apps) |-> LoadedApplication(apps[k])]
    /\ JobsPageInitial
    /\ toast = NoToast
    /\ isGenerating = FALSE
    /\ generating = <<>>
    /\ exported = NoExportCall
    /\ \/ /\ location = "/jobs"
          /\ selectedJobId = ""
          /\ generatedContent = NoData
          /\ settings = InitialSettings
          /\ showSaveDialog = FALSE
          /\ generatedFor = NotGenerated
       \/ /\ location = "/generate"
          /\ selectedJobId \in {"job-1", "job-2"}
          /\ generatedContent \in GeneratedContents
          /\ \E v \in BOOLEAN : settings = [InitialSettings EXCEPT !.includeCoverLetter = v]
          /\ showSaveDialog = TRUE
          /\ generatedFor \in Range(jobDescriptions)

NextTracker ==
    \/ HandleConfirmSave
    \/ \E k \in 1..Len(jobDescriptions), arrives \in BOOLEAN : HandleDeleteJob(k, arrives)
    \/ \E k \in 1..Len(jobDescriptions), job \in JobEdits, arrives \in BOOLEAN :
          EditJob(k, job, arrives)
    \/ \E path \in {"/jobs", "/tracker"} : Navigate(path)
    \/ \E failsAt \in {"none", "resume", "jobs", "applications"},
          jobs \in NewestFirst(jobTable), apps \in NewestFirst(applicationTable) :
          LoadData(failsAt, jobs, apps)

SpecTracker == InitTracker /\ [][NextTracker]_vars


(***************************************************************************)
(* Properties of the jobs and the applications                             *)
(***************************************************************************)
\* A step that deletes a job description and has the deletion persisted.
JobDeleted ==
    \E k \in 1..Len(jobDescriptions), arrives \in BOOLEAN : HandleDeleteJob(k, arrives)

\* A step that edits a job description and has the edit persisted.
JobEdited ==
    \E k \in 1..Len(jobDescriptions), job \in JobEdits, arrives \in BOOLEAN :
       EditJob(k, job, arrives)

\* The jobs whose row the step removes.
DeletedJobs == {j.id : j \in jobTable} \ {j.id : j \in jobTable'}

\* C19 as stated: deleting or editing a job description, in the store and in
\* the tables, removes no application and changes none: every application is
\* there afterwards, in the store and as a row, with every field unchanged.
C19_JobStepsLeaveApplicationsAlone ==
    [][(JobDeleted \/ JobEdited) =>
          /\ applications' = applications
          /\ applicationTable' = applicationTable]_vars

\* C19 as amended: deleting or editing a job description removes no
\* application and changes none in the store; an edit changes no row of the
\* applications either; a deletion that reaches the database leaves every row
\* of the applications in place and changes, in the rows that referenced the
\* deleted job and in no other, job_description_id (to NULL) and updated_at,
\* and nothing else.
C19_JobStepsKeepApplications ==
    [][(JobDeleted \/ JobEdited) =>
          /\ applications' = applications
          /\ JobEdited => applicationTable' = applicationTable
          /\ {r.id : r \in applicationTable'} = {r.id : r \in applicationTable}
          /\ Cardinality(applicationTable') = Cardinality(applicationTable)
          /\ \A r \in applicationTable : \E q \in applicationTable' :
                /\ q.id = r.id
                /\ IF r.job_description_id \in DeletedJobs
                   THEN q = [r EXCEPT !.job_description_id = Null,
                                      !.updated_at = q.updated_at]
                   ELSE q = r]_vars

\* A job has been deleted in the store and in the database while an
\* application saved in this session, with its snapshot, and the row of an
\* earlier application referred to it.
C19_Witness ==
    /\ \E r \in applicationTable :
          /\ r.job_description_id = Null
          /\ r.updated_at = DbNow(ThisSession)
          /\ r.created_at # r.updated_at
    /\ \E a \in Range(applications) :
          /\ a.location = "Austin"
          /\ Truthy(a.jobDescriptionId)
          /\ ~\E j \in Range(jobDescriptions) : j.id = a.jobDescriptionId
          /\ ~\E j \in jobTable : j.id = a.jobDescriptionId
    /\ Len(jobDescriptions) < 2

\* The fields of an Application that the model of the data names.
ApplicationFields ==
    {"id", "jobDescriptionId", "company", "role", "location", "salary", "jobType",
     "industry", "status", "notes", "connectionInfo", "applicationLink", "savedResume",
     "savedCoverLetter", "interviews", "reminders", "applicationDate"}

\* Two applications agree on a field: both have it with the same value, or
\* neither has it.
SameField(a, b, f) ==
    /\ (f \in DOMAIN a) = (f \in DOMAIN b)
    /\ (f \in DOMAIN a /\ f \in DOMAIN b) => a[f] = b[f]

\* A load that succeeds.
Loaded ==
    \E jobs \in NewestFirst(jobTable), apps \in NewestFirst(applicationTable) :
       LoadData("none", jobs, apps)

\* The applications of the store whose insert succeeded and whose job has
\* not been deleted since.
Persisted ==
    {a \in Range(applications) :
        \E r \in applicationTable :
           r.id = a.id /\ r.job_description_id = a.jobDescriptionId}

\* C20: after syncApplication(app, 'add') has succeeded, loadData yields an
\* application equal to app in every field of Application: id,
\* jobDescriptionId, company, role, location, salary, jobType, industry,
\* status, notes, connectionInfo, applicationLink, savedResume,
\* savedCoverLetter, interviews, reminders and applicationDate.
C20_LoadedEqualsSynced ==
    [][Loaded =>
          \A a \in Persisted : \E b \in Range(applications') :
             /\ b.id = a.id
             /\ \A f \in ApplicationFields : SameField(a, b, f)]_vars

(***************************************************************************)
(* lib/dateUtils on a host with a time zone.  Here a Date is a number of   *)
(* slots since 00:00 UTC of day 0, and the host's local time is hostOffset *)
(* slots ahead of UTC.  A string without a zone designator ('YYYY-MM-DD',  *)
(* 'YYYY-MM-DDTHH:MM') has kind "date" or "local", one that ends in Z has  *)
(* kind "instant".                                                         *)
(***************************************************************************)
MaxOffset == 2          \* the largest distance of local time from UTC, in slots
DateDays == 12          \* the days a date string can name

LocalTime(day, slot) == [kind |-> "local", day |-> day, slot |-> slot]

\* date-fns parseISO: a string without a designator is a local time
parseISO(text, offset) ==
    IF text.kind \in {"instant", "timestamptz"}
    THEN text.day * SlotsPerDay + text.slot
    ELSE text.day * SlotsPerDay + text.slot - offset

\* A faulty variant: new Date(dateString), which reads a date alone as UTC
parseDateOn_AsUTC(text, current, offset) ==
    IF text.kind = "empty" THEN current
    ELSE IF text.kind = "date" THEN text.day * SlotsPerDay
    ELSE parseISO(text, offset)

\* parseDate on a host whose local time is offset slots ahead of UTC
parseDateOn(text, current, offset) ==
    IF text.kind = "empty" THEN current
    ELSE IF text.kind = "date"
    THEN parseISO(LocalTime(text.day, 0), offset)      \* dateString + 'T00:00:00'
    ELSE parseISO(text, offset)

\* getFullYear, getMonth and getDate together; getHours
LocalDay(t, offset) == (t + offset) \div SlotsPerDay
LocalSlot(t, offset) == (t + offset) % SlotsPerDay

\* One call of parseDate.
ParseDate ==
    /\ parsedDate = NotParsed
    /\ parsedDate' = [parsed |-> TRUE, date |-> parseDateOn(dateText, clock, hostOffset)]
    /\ UNCHANGED <<hostOffset, dateText, dialogVars, generatedFor, sessionVars,
                   dashboardVars, tableVars,
                   exportVars, endpointVars, masterResume, toast, pageVars, saveVars>>

\* The strings parseDate is called with, on hosts east and west of Greenwich.
DateTexts ==
    {NoDate}
    \cup {DateOnly(d) : d \in 1..DateDays}
    \cup {LocalTime(d, t) : d \in 1..DateDays, t \in 0..(SlotsPerDay - 1)}
    \cup {Instant(d, t) : d \in 1..DateDays, t \in 0..(SlotsPerDay - 1)}

InitDates ==
    /\ EndpointIdle
    /\ ExportIdle
    /\ PagesIdle
    /\ SaveIdle
    /\ TablesEmpty
    /\ responseStats = NotRendered
    /\ weeklyData = NotRendered
    /\ upcomingItems = NotRendered
    /\ clock = Today * SlotsPerDay + Midday
    /\ hostOffset \in (0 - MaxOffset)..MaxOffset
    /\ dateText \in DateTexts
    /\ parsedDate = NotParsed
    /\ DialogIdle
    /\ generatedFor = NotGenerated
    /\ SessionSteady

NextDates == ParseDate

SpecDates == InitDates /\ [][NextDates]_vars

\* C22: parseDate of a date-only string YYYY-MM-DD is the instant of local
\* midnight of that day: the local year, month and day of the result are
\* those of the string for every offset of the host's time zone, positive or
\* negative, and the local time of day is 00:00.
C22_DateOnlyIsLocalMidnight ==
    (parsedDate # NotParsed /\ dateText.kind = "date") =>
        /\ LocalDay(parsedDate.date, hostOffset) = dateText.day
        /\ LocalSlot(parsedDate.date, hostOffset) = 0

\* A date alone has been parsed on a host west of Greenwich, where UTC
\* midnight falls on the evening before.
C22_Witness ==
    /\ parsedDate # NotParsed
    /\ dateText.kind = "date"
    /\ hostOffset < 0
    /\ parsedDate.date > dateText.day * SlotsPerDay

(***************************************************************************)
(* The ApplicationsTracker page: the row menu and the detail dialog.  A    *)
(* handler sees the selectedApplication and the applications of the render *)
(* it was created in; what it does after its await it does with those.     *)
(***************************************************************************)
MaxRequests == 2        \* the calls of handleUpdateApplication in a session

\* useResumeStore: updateApplication
updateApplication(apps, id, application, at) ==
    [k \in 1..Len(apps) |->
        IF apps[k].id = id
        THEN Spread(Spread(apps[k], application), [updatedAt |-> toISOString(at)])
        ELSE apps[k]]

\* useResumeStore: deleteApplication
deleteApplication(apps, id) == SelectSeq(apps, LAMBDA a : a.id # id)

\* syncApplication(app, 'update'): the rows after .update({...}).eq('id',
\* app.id).  A key whose value is undefined is not sent and the column keeps
\* its value; the trigger update_applications_updated_at stamps the row.
UpdateApplicationRows(rows, app, at) ==
    {IF r.id # app.id THEN r
     ELSE [r EXCEPT !.company = app.company, !.role = app.role,
                    !.status = app.status, !.applied_date = app.applicationDate,
                    !.notes = app.notes,
                    !.application_link = OrNull(app.applicationLink),
                    !.generated_resume = IF Truthy(app.savedResume)
                                         THEN [fullText |-> app.savedResume]
                                         ELSE JsonNull,
                    !.cover_letter = IF app.savedCoverLetter = Absent THEN @
                                     ELSE app.savedCoverLetter,
                    !.interviews = IF "interviews" \in DOMAIN app THEN app.interviews
                                   ELSE @,
                    !.reminders = IF "reminders" \in DOMAIN app THEN app.reminders
                                  ELSE @,
                    !.updated_at = DbNow(at)] : r \in rows}

\* The ids of the interviews and the reminders of an application.
ItemIds(app) ==
    {[list |-> "interviews", id |-> it.id] : it \in Range(ListOrEmpty(app, "interviews"))}
    \cup {[list |-> "reminders", id |-> it.id] : it \in Range(ListOrEmpty(app, "reminders"))}

\* The application of the store with this id, as a set of at most one.
Find(id) == {a \in Range(applications) : a.id = id}

\* handleUpdateApplication(id, updates) up to its await: updateApplication on
\* the store, and, when the applications of the render hold the id,
\* syncApplication({ ...app, ...updates }, 'update').  continues says that
\* the caller awaits it and then sets selectedApplication to
\* { ...selectedApplication, ...updates }; without an application to send,
\* nothing is awaited for and the caller goes on at once.
HandleUpdateApplication(id, updates, continues) ==
    /\ requested < MaxRequests
    /\ requested' = requested + 1
    /\ applications' = updateApplication(applications, id, updates, clock)
    /\ IF Find(id) # {}
       THEN /\ syncing' = syncing \cup
                  {[app |-> Spread(CHOOSE a \in Find(id) : TRUE, updates),
                    updates |-> updates,
                    continues |-> continues,
                    dialog |-> selectedApplication]}
            /\ UNCHANGED selectedApplication
       ELSE /\ UNCHANGED syncing
            /\ selectedApplication' =
                  IF continues THEN Spread(selectedApplication, updates)
                  ELSE selectedApplication

\* What no handler of the tracker touches.
TrackerFrame ==
    UNCHANGED <<location, jobDescriptions, masterResume, generateVars, jobsVars,
                saveVars, exportVars, endpointVars, dashboardVars, jobTable, dateVars,
                generatedFor, sessionVars>>

\* A row is clicked, or View Details is chosen: setSelectedApplication(app)
ViewDetails(k) ==
    /\ location = "/tracker"
    /\ selectedApplication = NoSelection
    /\ selectedApplication' = applications[k]
    /\ UNCHANGED <<applications, applicationTable, toast, syncing, addedItems,
                   deletedItems>>
    /\ UNCHANGED requested
    /\ TrackerFrame

\* Done, or the dialog is dismissed: setSelectedApplication(null)
CloseDetails ==
    /\ selectedApplication # NoSelection
    /\ selectedApplication' = NoSelection
    /\ UNCHANGED <<applications, applicationTable, toast, syncing, addedItems,
                   deletedItems>>
    /\ UNCHANGED requested
    /\ TrackerFrame

\* The row menu, 'Mark as ...': updateApplication(app.id, { status })
MarkAs(k, status) ==
    /\ location = "/tracker"
    /\ selectedApplication = NoSelection
    /\ applications[k].status # status
    /\ applications' = updateApplication(applications, applications[k].id,
                                         [status |-> status], clock)
    /\ UNCHANGED <<applicationTable, toast, dialogVars>>
    /\ TrackerFrame

\* The row menu, 'Delete': deleteApplication(app.id)
DeleteFromMenu(k) ==
    /\ location = "/tracker"
    /\ selectedApplication = NoSelection
    /\ applications' = deleteApplication(applications, applications[k].id)
    /\ deletedItems' = deletedItems \cup ItemIds(applications[k])
    /\ UNCHANGED <<applicationTable, toast, selectedApplication, syncing, addedItems>>
    /\ UNCHANGED requested
    /\ TrackerFrame

\* The button 'Delete Application' of the dialog:
\* deleteApplication(selectedApplication.id); the dialog stays open.
DeleteFromDialog ==
    /\ selectedApplication # NoSelection
    /\ Find(selectedApplication.id) # {}
    /\ applications' = deleteApplication(applications, selectedApplication.id)
    /\ deletedItems' = deletedItems
                          \cup UNION {ItemIds(a) : a \in Find(selectedApplication.id)}
    /\ UNCHANGED <<applicationTable, toast, selectedApplication, syncing, addedItems>>
    /\ UNCHANGED requested
    /\ TrackerFrame

\* The Select of the dialog: handleUpdateApplication(id, { status }), not
\* awaited, then setSelectedApplication({ ...selectedApplication, status }).
ChangeStatus(status) ==
    /\ selectedApplication # NoSelection
    /\ selectedApplication.status # status
    /\ requested < MaxRequests
    /\ requested' = requested + 1
    /\ applications' = updateApplication(applications, selectedApplication.id,
                                         [status |-> status], clock)
    /\ syncing' = syncing \cup
          {[app |-> Spread(a, [status |-> status]), updates |-> [status |-> status],
            continues |-> FALSE, dialog |-> selectedApplication] :
               a \in Find(selectedApplication.id)}
    /\ selectedApplication' = Spread(selectedApplication, [status |-> status])
    /\ UNCHANGED <<applicationTable, toast, addedItems, deletedItems>>
    /\ TrackerFrame

\* onChange of Notes or of Application Link:
\* setSelectedApplication({ ...selectedApplication, [field]: e.target.value })
ChangeField(field, text) ==
    /\ selectedApplication # NoSelection
    /\ selectedApplication[field] # text
    /\ selectedApplication' = Spread(selectedApplication, [f \in {field} |-> text])
    /\ UNCHANGED <<applications, applicationTable, toast, syncing, addedItems,
                   deletedItems>>
    /\ UNCHANGED requested
    /\ TrackerFrame

\* onBlur of Notes or of Application Link:
\* handleUpdateApplication(selectedApplication.id, { [field]: e.target.value })
BlurField(field) ==
    /\ selectedApplication # NoSelection
    /\ HandleUpdateApplication(selectedApplication.id,
                               [f \in {field} |-> OrElse(selectedApplication[field], "")],
                               FALSE)
    /\ UNCHANGED <<applicationTable, toast, addedItems, deletedItems>>
    /\ TrackerFrame

\* InterviewScheduler and FollowUpReminders, handleAdd: the new item, not
\* completed, under the id that crypto.randomUUID() returned.
NewItem(id) ==
    [id |-> id, type |-> "custom", date |-> DateOnly(Today + 1), time |-> 1,
     completed |-> FALSE]

\* handleAddInterview and handleAddReminder, up to the await
HandleAddItem(list, id) ==
    /\ selectedApplication # NoSelection
    /\ LET items == Append(ListOrEmpty(selectedApplication, list), NewItem(id))
       IN HandleUpdateApplication(selectedApplication.id, [f \in {list} |-> items], TRUE)
    /\ addedItems' = addedItems \cup {[list |-> list, id |-> id,
                                       app |-> selectedApplication.id]}
    /\ UNCHANGED <<applicationTable, toast, deletedItems>>
    /\ TrackerFrame

\* handleUpdateInterview and handleUpdateReminder with { completed: true },
\* from the checkbox of an item the dialog shows, up to the await
HandleUpdateItem(list, id) ==
    /\ selectedApplication # NoSelection
    /\ \E it \in Range(ListOrEmpty(selectedApplication, list)) :
          it.id = id /\ ~it.completed
    /\ LET shown == ListOrEmpty(selectedApplication, list)
           items == [j \in 1..Len(shown) |->
                        IF shown[j].id = id
                        THEN Spread(shown[j], [completed |-> TRUE]) ELSE shown[j]]
       IN HandleUpdateApplication(selectedApplication.id, [f \in {list} |-> items], TRUE)
    /\ UNCHANGED <<applicationTable, toast, addedItems, deletedItems>>
    /\ TrackerFrame

\* handleDeleteInterview and handleDeleteReminder, from the button of an item
\* the dialog shows, up to the await
HandleDeleteItem(list, id) ==
    /\ selectedApplication # NoSelection
    /\ \E it \in Range(ListOrEmpty(selectedApplication, list)) : it.id = id
    /\ LET items == SelectSeq(ListOrEmpty(selectedApplication, list),
                              LAMBDA it : it.id # id)
       IN HandleUpdateApplication(selectedApplication.id, [f \in {list} |-> items], TRUE)
    /\ deletedItems' = deletedItems \cup {[list |-> list, id |-> id]}
    /\ UNCHANGED <<applicationTable, toast, addedItems>>
    /\ TrackerFrame

\* A call of syncApplication(app, 'update') settles: the row is written, or
\* 'Failed to save application' is shown; then the handler that awaited it
\* sets selectedApplication from what it read before the await.
SyncSettles(call, arrives) ==
    /\ call \in syncing
    /\ syncing' = syncing \ {call}
    /\ IF arrives
       THEN /\ applicationTable' = UpdateApplicationRows(applicationTable, call.app, clock)
            /\ UNCHANGED toast
       ELSE /\ toast' = "Failed to save application"
            /\ UNCHANGED applicationTable
    /\ selectedApplication' = IF call.continues THEN Spread(call.dialog, call.updates)
                              ELSE selectedApplication
    /\ UNCHANGED <<applications, addedItems, deletedItems>>
    /\ UNCHANGED requested
    /\ TrackerFrame

\* The second job's application, and the first one's with an interview.
SecondApplication ==
    NewApplication("uuid-2", TrackedJob(2),
                   [hasConnection |-> "no", name |-> "", contactInfo |-> "",
                    email |-> "", applicationLink |-> ""],
                   [resume |-> "resume B", coverLetter |-> "letter B",
                    whyRole |-> "role B", whyCompany |-> "company B"],
                   FALSE, Earlier + 1)

\* The id of the next item added, and those of the items there can be.
NextItem == "item-" \o ToString(Cardinality(addedItems) + 1)
ItemNames == {"item-" \o ToString(n) : n \in 0..MaxRequests}
Lists == {"interviews", "reminders"}
FieldTexts == [notes |-> "call back"]

InitApplications ==
    /\ EndpointIdle
    /\ ExportIdle
    /\ SaveIdle
    /\ clock = ThisSession
    /\ DatesIdle
    /\ responseStats = NotRendered
    /\ weeklyData = NotRendered
    /\ upcomingItems = NotRendered
    /\ jobTable = {JobRow(TrackedJob(n), TrackedJob(n).id, Earlier + n) : n \in 1..2}
    /\ applicationTable =
          {[ApplicationRow(EarlierApplication, Earlier + 3) EXCEPT
               !.interviews = <<NewItem("item-0")>>],
           ApplicationRow(SecondApplication, Earlier + 4)}
    /\ masterResume = defaultResume
    /\ hasUnsavedChanges = FALSE
    /\ \E jobs \in NewestFirst(jobTable), apps \in NewestFirst(applicationTable) :
          /\ jobDescriptions = [k \in 1..Len(jobs) |-> LoadedJob(jobs[k])]
          /\ applications = [k \in 1..Len(apps) |-> LoadedApplication(apps[k])]
    /\ GeneratePageInitial
    /\ JobsPageInitial
    /\ toast = NoToast
    /\ location = "/tracker"
    /\ DialogIdle
    /\ generatedFor = NotGenerated
    /\ SessionSteady

NextApplications ==
    \/ \E k \in 1..Len(applications) : ViewDetails(k)
    \/ CloseDetails
    \/ \E k \in 1..Len(applications) : MarkAs(k, "applied")
    \/ \E k \in 1..Len(applications) : DeleteFromMenu(k)
    \/ DeleteFromDialog
    \/ ChangeStatus("interview")
    \/ \E field \in DOMAIN FieldTexts : ChangeField(field, FieldTexts[field])
    \/ \E field \in DOMAIN FieldTexts : BlurField(field)
    \/ \E list \in Lists : HandleAddItem(list, NextItem)
    \/ \E list \in Lists, id \in ItemNames : HandleUpdateItem(list, id)
    \/ \E list \in Lists, id \in ItemNames : HandleDeleteItem(list, id)
    \/ \E call \in syncing, arrives \in BOOLEAN : SyncSettles(call, arrives)

SpecApplications == InitApplications /\ [][NextApplications]_vars

(***************************************************************************)
(* Properties of the ApplicationsTracker page                              *)
(***************************************************************************)
\* C25: an interview or reminder added to an application through the dialog
\* stays in that application's list in the store until it is explicitly
\* deleted, under every interleaving of the add, update and delete handlers
\* whose persistence calls are still pending.  An application that has been
\* deleted has taken its interviews and reminders with it.
C25_AddedItemsStay ==
    \A it \in addedItems :
       [list |-> it.list, id |-> it.id] \notin deletedItems =>
          \A a \in Find(it.app) :
             \E x \in Range(ListOrEmpty(a, it.list)) : x.id = it.id

\* What a reload shows of an application: its id, status, notes, interviews
\* and reminders.
Tracked(app) ==
    [id |-> app.id, status |-> app.status, notes |-> app.notes,
     interviews |-> ListOrEmpty(app, "interviews"),
     reminders |-> ListOrEmpty(app, "reminders")]

\* C26: after any sequence of tracker operations whose persistence calls
\* have all succeeded, a reload from the database yields the same set of
\* applications with the same status, notes, interviews and reminders as the
\* store holds.
C26_ReloadYieldsTheStore ==
    (syncing = {} /\ toast = NoToast) =>
          {Tracked(LoadedApplication(r)) : r \in applicationTable}
             = {Tracked(a) : a \in Range(applications)}

(***************************************************************************)
(* The session: login and logout, loadData with its three queries, and the *)
(* auto-save of the master resume, for two users of one browser.  A query  *)
(* or an update is served with the session it was issued under; time is    *)
(* left out, so that a timer that is set may fire at any later point.      *)
(***************************************************************************)
MaxLogins == 2          \* the logins of a run of the model
MaxSaving == 1          \* the updates of master_resumes in flight at a time

Users == {"ada", "bob"}

\* The user the rows of job_descriptions and applications belong to.
Owner == "ada"

\* CREATE POLICY ... FOR SELECT USING (auth.uid() = user_id): a query for the
\* rows of call.user sees them under that user's session and no other.
Visible(call) == call.session = call.user

\* The auto-save effect with its guards:
\* if (!user || isInitialLoadRef.current || !hasUnsavedChanges) return
GuardedAutoSaveEffect(u, initialLoad, resume, unsaved) ==
    IF u = NoUser \/ initialLoad THEN NoTimer ELSE AutoSaveEffect(resume, unsaved)

\* What no step of the session touches.
SessionFrame ==
    UNCHANGED <<location, generateVars, jobsVars, persisted, now, edits, writes,
                exportVars, endpointVars, dashboardVars, tableVars, dateVars,
                dialogVars, generatedFor>>

\* A user logs in: the effect on [user, loadData, resetStore] sets the refs and
\* calls loadData, which runs up to the await of its first query.
Login(u) ==
    /\ user = NoUser
    /\ logins < MaxLogins
    /\ logins' = logins + 1
    /\ user' = u
    /\ isInitialLoadRef' = TRUE
    /\ isLoadingRef' = TRUE
    /\ isLoading' = TRUE
    /\ loads' = loads \cup
          {[login |-> logins', user |-> u, session |-> u, stage |-> "resume"]}
    /\ saveTimeout' = NoTimer
    /\ loadedFor' = NoUser
    /\ UNCHANGED <<masterResume, jobDescriptions, applications, hasUnsavedChanges,
                   saving, toast, masterTable, issued>>
    /\ SessionFrame

\* The user logs out: the same effect resets the refs and the store.
Logout ==
    /\ user # NoUser
    /\ user' = NoUser
    /\ isLoadingRef' = FALSE
    /\ isInitialLoadRef' = TRUE
    /\ isLoading' = FALSE
    /\ masterResume' = defaultResume
    /\ jobDescriptions' = <<>>
    /\ applications' = <<>>
    /\ hasUnsavedChanges' = FALSE
    /\ saveTimeout' = NoTimer
    /\ loadedFor' = NoUser
    /\ UNCHANGED <<loads, saving, toast, masterTable, logins, issued>>
    /\ SessionFrame

\* loadData from one await to the next: the query of call.stage is answered,
\* its rows are put into the store and the next query is issued under the
\* session of that moment; after the last one markAsSaved, the ref and the
\* finally block follow.  An error goes to catch and finally.
LoadAnswers(call, fails) ==
    /\ call \in loads
    /\ IF fails
       THEN /\ loads' = loads \ {call}
            /\ toast' = "Failed to load your data"
            /\ isLoading' = FALSE
            /\ isLoadingRef' = FALSE
            /\ UNCHANGED <<masterResume, jobDescriptions, applications,
                           hasUnsavedChanges, saveTimeout, isInitialLoadRef, loadedFor>>
       ELSE IF call.stage = "resume"
       THEN /\ masterResume' = LoadedResume(IF Visible(call) THEN masterTable[call.user]
                                            ELSE NoMaster)
            /\ hasUnsavedChanges' = FALSE
            /\ saveTimeout' = NoTimer
            /\ loads' = (loads \ {call})
                           \cup {[call EXCEPT !.stage = "jobs", !.session = user]}
            /\ UNCHANGED <<jobDescriptions, applications, toast, isLoading,
                           isLoadingRef, isInitialLoadRef, loadedFor>>
       ELSE IF call.stage = "jobs"
       THEN /\ \E jobs \in NewestFirst(IF Visible(call) /\ call.user = Owner
                                       THEN jobTable ELSE {}) :
                  jobDescriptions' = [k \in 1..Len(jobs) |-> LoadedJob(jobs[k])]
            /\ loads' = (loads \ {call})
                           \cup {[call EXCEPT !.stage = "applications", !.session = user]}
            /\ UNCHANGED <<masterResume, applications, hasUnsavedChanges, saveTimeout,
                           toast, isLoading, isLoadingRef, isInitialLoadRef, loadedFor>>
       ELSE /\ \E apps \in NewestFirst(IF Visible(call) /\ call.user = Owner
                                       THEN applicationTable ELSE {}) :
                  applications' = [k \in 1..Len(apps) |-> LoadedApplication(apps[k])]
            /\ hasUnsavedChanges' = FALSE
            /\ saveTimeout' = AfterMarkAsSaved
            /\ isInitialLoadRef' = FALSE
            /\ isLoading' = FALSE
            /\ isLoadingRef' = FALSE
            /\ loadedFor' = IF call.user = user THEN user ELSE loadedFor
            /\ loads' = loads \ {call}
            /\ UNCHANGED <<masterResume, jobDescriptions, toast>>
    /\ UNCHANGED <<user, saving, masterTable, logins, issued>>
    /\ SessionFrame

\* The MasterResume page, shown once isLoading is false: a name is typed,
\* updateMasterResume, and the auto-save effect of the render after it.
EditResume(name) ==
    /\ user # NoUser
    /\ ~isLoading
    /\ masterResume.header.name # name
    /\ masterResume' = [masterResume EXCEPT !.header.name = name]
    /\ hasUnsavedChanges' = TRUE
    /\ saveTimeout' = GuardedAutoSaveEffect(user, isInitialLoadRef, masterResume', TRUE)
    /\ UNCHANGED <<jobDescriptions, applications, saving, toast, sessionVars>>
    /\ SessionFrame

\* The timer fires: saveMasterResume up to the await of its update, which
\* is issued unless if (!user || isInitialLoadRef.current) return.
AutoSaveFires ==
    /\ saveTimeout.armed
    /\ Len(saving) < MaxSaving
    /\ saveTimeout' = NoTimer
    /\ IF user = NoUser \/ isInitialLoadRef
       THEN UNCHANGED <<saving, issued>>
       ELSE /\ saving' = Append(saving, [user |-> user, resume |-> saveTimeout.snapshot])
            /\ issued' = issued \cup {[user |-> user, loaded |-> loadedFor = user]}
    /\ UNCHANGED <<masterResume, jobDescriptions, applications, hasUnsavedChanges,
                   toast, user, isInitialLoadRef, isLoadingRef, isLoading, loads,
                   masterTable, logins, loadedFor>>
    /\ SessionFrame

\* saveMasterResume from the await on: the row of the user who issued the
\* update is written and markAsSaved follows, or the error is shown.
SaveAnswers(i, arrives) ==
    /\ i \in 1..Len(saving)
    /\ saving' = RemoveAt(saving, i)
    /\ IF arrives
       THEN /\ masterTable' = [masterTable EXCEPT ![saving[i].user] = saving[i].resume]
            /\ hasUnsavedChanges' = FALSE
            /\ saveTimeout' = AfterMarkAsSaved
            /\ UNCHANGED toast
       ELSE /\ toast' = "Failed to save resume"
            /\ UNCHANGED <<masterTable, hasUnsavedChanges, saveTimeout>>
    /\ UNCHANGED <<masterResume, jobDescriptions, applications, user, isInitialLoadRef,
                   isLoadingRef, isLoading, loads, logins, loadedFor, issued>>
    /\ SessionFrame

\* Nobody is logged in: the store is initial, useRef(true) and useRef(false).
InitSession ==
    /\ EndpointIdle
    /\ ExportIdle
    /\ PagesIdle
    /\ SaveIdle
    /\ DashboardIdle
    /\ DatesIdle
    /\ DialogIdle
    /\ generatedFor = NotGenerated
    /\ jobTable = {JobRow(TrackedJob(1), TrackedJob(1).id, Earlier + 1)}
    /\ applicationTable = {ApplicationRow(EarlierApplication, Earlier + 3)}
    /\ user = NoUser
    /\ isInitialLoadRef = TRUE
    /\ isLoadingRef = FALSE
    /\ isLoading = FALSE
    /\ loads = {}
    /\ masterTable = [u \in Users |->
                         [PlainResume EXCEPT !.header.name = IF u = "ada" THEN "Ada"
                                                             ELSE "Bob"]]
    /\ logins = 0
    /\ loadedFor = NoUser
    /\ issued = {}

NextSession ==
    \/ \E u \in Users : Login(u)
    \/ Logout
    \/ \E call \in loads, fails \in BOOLEAN : LoadAnswers(call, fails)
    \/ EditResume("Eve")
    \/ AutoSaveFires
    \/ \E i \in 1..Len(saving), arrives \in BOOLEAN : SaveAnswers(i, arrives)

SpecSession == InitSession /\ [][NextSession]_vars

(***************************************************************************)
(* Properties of the session                                               *)
(***************************************************************************)
\* C29: the auto-save never writes the master resume to the database before
\* the initial load for the current user has completed successfully: between
\* a login and the end of a successful loadData no update of master_resumes
\* is issued.
C29_NoUpdateBeforeInitialLoad ==
    \A update \in issued : update.loaded

\* C30: once the user has logged out the store holds the initial state (the
\* empty resume, no job descriptions, no applications, hasUnsavedChanges
\* false) and keeps it until the next login, under every interleaving with a
\* loadData or a save request that was in flight at the logout.
C30_LoggedOutStoreIsInitial ==
    user = NoUser =>
        /\ masterResume = defaultResume
        /\ jobDescriptions = <<>>
        /\ applications = <<>>
        /\ ~hasUnsavedChanges

=============================================================================
